---- MODULE Spec2Model ----
(***************************************************************************)
(* dish-ms: the dish version engine.                                       *)
(*                                                                         *)
(* The database holds chefs, ingredients, dishes and dish-ingredient rows. *)
(* Every route handler is an async function: each awaited Prisma call is   *)
(* one atomic database operation, and other requests may run between two   *)
(* awaits.  A handler is therefore a small process; one action of this     *)
(* module is one awaited database operation together with the synchronous  *)
(* code that follows it up to the next await (or the response).            *)
(*                                                                         *)
(* prisma.$transaction(async tx => ...) is one action: its first statement *)
(* is an UPDATE / INSERT of the dish row, whose row lock is held until the *)
(* commit, so transactions on one dish are serialized, and the statements  *)
(* outside transactions read committed data only.                          *)
(*                                                                         *)
(* The client is one browser tab: RootLayout renders AuthGuard around      *)
(* AppLayout and the page; a step of it is an event handler, an effect or  *)
(* the completion of a navigation, each with the render that follows it.   *)
(***************************************************************************)
EXTENDS Integers, Sequences, FiniteSets, TLC

VARIABLES
    chefs,        \* the chef table: chefs[id] = [username, name, password,
                  \* updatedAt]
    ingredients,  \* the ingredient table: ingredients[id] = [name, unit]
    dishes,       \* the dish table: dishes[id] = [chefId, name, versionNumber,
                  \* createdAt, updatedAt]
    rows,         \* the dishingredient table in insertion order
    slots,        \* the requests in flight: slots[s] is one request's handler
    answers,      \* answers[id]: the versionNumber of every 200 response of
                  \* PUT on dish id and the lines of its request, in the
                  \* order of the commits
    browser       \* one browser tab: the path, the session storage and the
                  \* state of the AuthGuard component

vars == <<chefs, ingredients, dishes, rows, slots, answers, browser>>

(***************************************************************************)
(* Bounds of the model.                                                    *)
(***************************************************************************)
\* Committed write transactions (dish creations plus revisions) in a run.
MaxWrites == 3

\* The same, in the specification of the failing requests.
MaxWritesErrors == 2

\* The same, in the specification of the paged history.
MaxWritesHistory == 4
MaxWritesList == 3

\* Two requests run concurrently.  The response of the request at Observed
\* stays visible (pc = "done") until Respond; the requests at the other slot
\* are the ones racing it, and leave as soon as they are answered.
Observed == "r1"
Racing == "r2"
Slots == {Observed, Racing}

(***************************************************************************)
(* Values.                                                                 *)
(***************************************************************************)
\* request.headers.get("x-chef-id") === null
NoHeader == -1

\* body.name === undefined
NoName == "<undefined>"

\* findUnique(...) === null
NoDish == [id |-> 0, chefId |-> 0, name |-> NoName, versionNumber |-> 0]

L(i, a) == [ingredientId |-> i, ingredientAmount |-> a]

\* lib/errors.ts: statusCode, code and the default message of each class
\* (the handlers' own message texts are modelled where a claim reads them)
NotFoundError ==
    [class |-> "NotFoundError", status |-> 404, code |-> "NOT_FOUND",
     message |-> "Resource not found"]
UnauthorizedError ==
    [class |-> "UnauthorizedError", status |-> 403, code |-> "UNAUTHORIZED",
     message |-> "Unauthorized access"]
ValidationError ==
    [class |-> "ValidationError", status |-> 400, code |-> "VALIDATION_ERROR",
     message |-> ""]
ConflictError ==
    [class |-> "ConflictError", status |-> 409, code |-> "CONFLICT",
     message |-> "Resource conflict"]
\* error instanceof AppError
AppErrors ==
    {"AppError", "NotFoundError", "UnauthorizedError", "ValidationError",
     "ConflictError"}

\* What schema.parse throws: an object with issues, no statusCode, no code.
ZodError ==
    [class |-> "ZodError", status |-> 0, code |-> "", message |-> "issues"]
\* What prisma throws when a write breaks a unique index: it has a code, but
\* it is no AppError and has no issues.
PrismaUniqueError ==
    [class |-> "PrismaClientKnownRequestError", status |-> 0, code |-> "P2002",
     message |-> "Unique constraint failed"]

\* catch: the answer to an error with issues
IssuesResponse ==
    [status |-> 400, code |-> "VALIDATION_ERROR",
     message |-> "Request data validation failed"]
\* catch: the answer to an error that is no AppError and has no issues
InternalServerError ==
    [status |-> 500, code |-> "INTERNAL_SERVER_ERROR",
     message |-> "Internal server error"]

\* throw new SomeError(message)
Thrown(e, message) == [e EXCEPT !.message = message]

NoResp ==
    [status |-> 0, code |-> "", id |-> 0, name |-> NoName, chefId |-> 0,
     unit |-> NoName, username |-> NoName,
     versionNumber |-> 0, ingredients |-> <<>>, histories |-> <<>>,
     total |-> 0, message |-> "", data |-> <<>>]

ErrorBody(status, code, message) ==
    [NoResp EXCEPT !.status = status, !.code = code, !.message = message]

\* Faulty variant: the catch knows no error class and answers 500 always.
ErrorResponseUnrecognized(e) ==
    ErrorBody(InternalServerError.status, InternalServerError.code,
              InternalServerError.message)

\* The catch of the handlers: a ValidationError under its own code and
\* status, an error with issues as 400, any other AppError under its code
\* (or APP_ERROR) and status, anything else as 500.  The catch of the GET
\* handlers has the AppError and the last branch only, which answers the
\* errors they throw alike.
ErrorResponse(e) ==
    IF e.class = "ValidationError"
    THEN ErrorBody(e.status, e.code, e.message)
    ELSE IF e.class = "ZodError"
         THEN ErrorBody(IssuesResponse.status, IssuesResponse.code,
                        IssuesResponse.message)
    ELSE IF e.class \in AppErrors
         THEN ErrorBody(e.status, IF e.code = "" THEN "APP_ERROR" ELSE e.code,
                        e.message)
    ELSE ErrorBody(InternalServerError.status, InternalServerError.code,
                   InternalServerError.message)

IdleSlot ==
    [kind |-> "idle", pc |-> "idle", chefId |-> NoHeader, dishId |-> 0,
     name |-> NoName, lines |-> <<>>, current |-> 1, pageSize |-> 10,
     dish |-> NoDish, resp |-> NoResp,
     \* the requests on the ingredient and chef tables: the [ingredientId]
     \* path parameter and body.unit, body.username
     ingredientId |-> 0, unit |-> NoName, username |-> NoName,
     password |-> NoName, search |-> NoName, found |-> <<>>, count |-> 0,
     \* what an observer of the request knows: the dish table when the request
     \* arrived, the committed states of the dish during a read, whether no
     \* other request overlapped it, whether a step of it changed a table
     pre |-> <<>>, snaps |-> {}, solo |-> FALSE, wrote |-> FALSE,
     \* the ingredient and the chef table when the request arrived
     preIngredients |-> <<>>, preChefs |-> <<>>]

(***************************************************************************)
(* Inputs of the requests.  A specification draws each request's inputs    *)
(* from a record In of sets:                                               *)
(*   chefIds    the X-Chef-Id header of PUT and POST (NoHeader: absent;    *)
(*              0: not a positive integer; 3: no such chef)                *)
(*   viewerIds  the X-Chef-Id header of the GETs                           *)
(*   dishIds    the [dishId] path parameter (0: not a positive integer)    *)
(*   postNames, putNames    body.name ("": empty; NoName: absent)          *)
(*   postLines, putLines    body.ingredients                               *)
(*   currents, pageSizes    the history query's ?current= and ?pageSize=   *)
(*   maxWrites  the bound on the committed writes                          *)
(***************************************************************************)
\* Ingredients 1 and 2 are in the catalog, ingredient 3 is not.
LinesA == <<L(1, 1)>>
LinesB == <<L(2, 2), L(1, 2)>>
LinesDuplicate == <<L(1, 1), L(1, 2)>>
LinesMissing == <<L(3, 1)>>
LinesDuplicateMissing == <<L(3, 1), L(3, 2)>>
LinesEmpty == <<>>

\* Revisions racing each other and the reads.
InCore ==
    [chefIds |-> {1, 2}, viewerIds |-> {NoHeader, 0, 1, 2, 3}, dishIds |-> {1, 2},
     postNames |-> {"a"}, putNames |-> {NoName, "b"},
     postLines |-> {LinesB}, putLines |-> {LinesA, LinesB},
     currents |-> {1}, pageSizes |-> {10}, maxWrites |-> MaxWrites]

\* The requests racing the failing ones: creations and renames that commit.
\* One chef revising one dish, read page by page.
InHistory ==
    [chefIds |-> {1}, viewerIds |-> {NoHeader}, dishIds |-> {1},
     postNames |-> {"a"}, putNames |-> {NoName, "b"},
     postLines |-> {LinesB}, putLines |-> {LinesA, LinesB},
     currents |-> {1, 2, 3}, pageSizes |-> {1, 2},
     maxWrites |-> MaxWritesHistory]

\* Requests on the ingredient and chef tables: "x" and "y" are names of
\* ingredients in the catalog and "u1" is the username of a chef; ingredient
\* 3 does not exist at first.
InCatalog ==
    [ingredientIds |-> {0, 1, 3}, ingredientNames |-> {"", "x", "z"},
     units |-> {"", "kg"}, chefNames |-> {"n3"}, usernames |-> {"", "u1", "u3"},
     passwords |-> {"secret3"}, maxWrites |-> 0]

\* The requests racing them take the free name and the free username.
InCatalogRacing ==
    [ingredientIds |-> {1}, ingredientNames |-> {"z"},
     units |-> {"kg"}, chefNames |-> {"n3"}, usernames |-> {"u3"},
     passwords |-> {"secret3"}, maxWrites |-> 0]

\* The dish list next to creations and revisions of two dishes of chef 1.
InList ==
    [chefIds |-> {1}, viewerIds |-> {}, dishIds |-> {1, 2},
     postNames |-> {"a", "b"}, putNames |-> {NoName, "b"}, postLines |-> {LinesB},
     putLines |-> {LinesA}, currents |-> {1, 2}, pageSizes |-> {1, 10},
     searches |-> {NoName, "a", "2"}, maxWrites |-> MaxWritesList]

\* The chef entry points: registration, login and PUT /api/chefs/[chefId].
InChefs ==
    [chefNames |-> {"", "n3"}, usernames |-> {"", "u1", "u3"},
     passwords |-> {"", "secret3"}, chefIds |-> {0, 1, 2, 3},
     loginPasswords |-> {"", "secret1", "secret3"}, newNames |-> {"", "m"},
     maxWrites |-> 0]

InChefsRacing ==
    [chefNames |-> {"n3"}, usernames |-> {"u3"},
     passwords |-> {"secret3"}, chefIds |-> {1},
     loginPasswords |-> {"secret3"}, newNames |-> {"m2"},
     maxWrites |-> 0]

InRacing ==
    [chefIds |-> {1, 2}, viewerIds |-> {}, dishIds |-> {1, 2},
     postNames |-> {"a", "b"}, putNames |-> {NoName, "a", "b"},
     postLines |-> {LinesA}, putLines |-> {LinesA},
     currents |-> {1}, pageSizes |-> {10}, maxWrites |-> MaxWritesErrors]

\* Requests that fail one check or several, and names that collide.
InErrors ==
    [chefIds |-> {NoHeader, 1, 2, 3}, viewerIds |-> {}, dishIds |-> {0, 1, 2},
     postNames |-> {"a", "b"}, putNames |-> {NoName, "a", "b"},
     postLines |-> {LinesA, LinesDuplicate, LinesMissing, LinesEmpty},
     putLines |-> {LinesA, LinesDuplicate, LinesMissing, LinesDuplicateMissing,
                   LinesEmpty},
     currents |-> {1}, pageSizes |-> {10}, maxWrites |-> MaxWritesErrors]

(***************************************************************************)
(* Queries.                                                                *)
(***************************************************************************)
\* prisma.dish.findUnique({ where: { id } })
FindDish(ds, id) ==
    IF id \in 1 .. Len(ds)
    THEN [id |-> id, chefId |-> ds[id].chefId, name |-> ds[id].name,
          versionNumber |-> ds[id].versionNumber]
    ELSE NoDish

\* Faulty variant: the name is looked up among the dishes of every chef.
OtherDishNamedByAnyone(ds, chefId, name, dishId) ==
    \E i \in 1 .. Len(ds) : ds[i].name = name /\ i # dishId

\* prisma.dish.findFirst({ where: { chefId, name, id: { not: dishId } } })
OtherDishNamed(ds, chefId, name, dishId) ==
    \E i \in 1 .. Len(ds) :
        /\ ds[i].chefId = chefId
        /\ ds[i].name = name
        /\ i # dishId

\* Faulty variant: the name is looked up among the dishes of every chef.
DishNamedByAnyone(ds, chefId, name) ==
    \E i \in 1 .. Len(ds) : ds[i].name = name

\* prisma.dish.findFirst({ where: { chefId, name } })
DishNamed(ds, chefId, name) ==
    \E i \in 1 .. Len(ds) : ds[i].chefId = chefId /\ ds[i].name = name

\* Faulty variant: the existence check is left out.
NoneMissing(lines) == FALSE

\* ingredientIds.filter(id => !existingIngredientIds.has(id)).length > 0
MissingIngredientIds(lines) ==
    \E i \in 1 .. Len(lines) : lines[i].ingredientId \notin DOMAIN ingredients

\* Faulty variant: the duplicate check is left out.
NoneDuplicate(lines) == FALSE

\* new Set(ingredientIds).size !== ingredientIds.length
DuplicateIngredientIds(lines) ==
    Cardinality({lines[i].ingredientId : i \in 1 .. Len(lines)}) # Len(lines)

\* z.array(z.object({ ingredientId: positive int, ingredientAmount: >= 0 })).min(1)
IngredientsSchemaOk(lines) ==
    /\ Len(lines) >= 1
    /\ \A i \in 1 .. Len(lines) :
        /\ lines[i].ingredientId > 0
        /\ lines[i].ingredientAmount >= 0

\* updateDishIngredientsSchema: name is optional, min(1) when given
UpdateDishIngredientsSchemaOk(dishId, name, lines) ==
    /\ dishId > 0
    /\ name # ""
    /\ IngredientsSchemaOk(lines)

\* createDishSchema: name is required, min(1)
CreateDishSchemaOk(name, lines) ==
    /\ name # NoName
    /\ name # ""
    /\ IngredientsSchemaOk(lines)

\* orderBy: { ingredientId: "asc" }; rows of one version of one dish never
\* tie (the handlers reject duplicate ids), ties elsewhere fall to the row id
RECURSIVE OrderByIngredientId(_, _)
OrderByIngredientId(rws, I) ==
    IF I = {} THEN <<>>
    ELSE LET m == CHOOSE i \in I : \A j \in I :
                    \/ rws[i].ingredientId < rws[j].ingredientId
                    \/ rws[i].ingredientId = rws[j].ingredientId /\ i <= j
         IN <<m>> \o OrderByIngredientId(rws, I \ {m})

\* Faulty variant: no orderBy, the rows come in insertion order.
OrderByRowId(rws, I) ==
    [k \in 1 .. Cardinality(I) |->
        CHOOSE i \in I : Cardinality({j \in I : j < i}) = k - 1]

\* orderBy: [{ versionNumber: "desc" }, { ingredientId: "asc" }]
RECURSIVE OrderByVersionDesc(_, _)
OrderByVersionDesc(rws, I) ==
    IF I = {} THEN <<>>
    ELSE LET m == CHOOSE i \in I : \A j \in I :
                    \/ rws[i].versionNumber > rws[j].versionNumber
                    \/ /\ rws[i].versionNumber = rws[j].versionNumber
                       /\ \/ rws[i].ingredientId < rws[j].ingredientId
                          \/ rws[i].ingredientId = rws[j].ingredientId /\ i <= j
         IN <<m>> \o OrderByVersionDesc(rws, I \ {m})

RowsOfDish(rws, dishId) == {i \in 1 .. Len(rws) : rws[i].dishId = dishId}

RECURSIVE FilterSeq(_, _, _)
FilterSeq(rws, idx, v) ==
    IF idx = <<>> THEN <<>>
    ELSE LET rest == FilterSeq(rws, Tail(idx), v)
         IN IF rws[Head(idx)].versionNumber = v
            THEN <<L(rws[Head(idx)].ingredientId,
                     rws[Head(idx)].ingredientAmount)>> \o rest
            ELSE rest

\* Faulty variant: the rows of every version are listed.
AllIngredients(rws, dishId, versionNumber) ==
    LET idx == OrderByIngredientId(rws, RowsOfDish(rws, dishId))
    IN [i \in 1 .. Len(idx) |->
            L(rws[idx[i]].ingredientId, rws[idx[i]].ingredientAmount)]

\* findMany({ where: { dishId }, orderBy: { ingredientId: "asc" } })
\*   .filter(di => di.versionNumber === versionNumber), as the response lists it
CurrentIngredients(rws, dishId, versionNumber) ==
    FilterSeq(rws, OrderByIngredientId(rws, RowsOfDish(rws, dishId)),
              versionNumber)

(***************************************************************************)
(* Bookkeeping of the requests.                                            *)
(***************************************************************************)
InFlight(sl) == sl.pc \notin {"idle", "done"}

NewRequest(kind, chefId, dishId, name, lines, current, pageSize) ==
    [IdleSlot EXCEPT !.kind = kind, !.chefId = chefId, !.dishId = dishId,
                     !.name = name, !.lines = lines, !.current = current,
                     !.pageSize = pageSize,
                     !.pre = dishes]

Fail(req, e) == [req EXCEPT !.pc = "done", !.resp = ErrorResponse(e)]

\* What slot s holds once its handler has reached sl.
Held(s, sl) == IF sl.pc = "done" /\ s # Observed THEN IdleSlot ELSE sl

\* The lines of version v of a dish, as a set (what a reader of the tables sees).
Composition(rws, dishId, v) ==
    {L(rws[i].ingredientId, rws[i].ingredientAmount) :
        i \in {j \in RowsOfDish(rws, dishId) : rws[j].versionNumber = v}}

Snapshot(ds, rws, dishId) ==
    [versionNumber |-> ds[dishId].versionNumber,
     name |-> ds[dishId].name,
     lines |-> Composition(rws, dishId, ds[dishId].versionNumber)]

\* Committed writes so far: one per dish created, one per version after 1.
RECURSIVE Revisions(_)
Revisions(ds) ==
    IF ds = <<>> THEN 0 ELSE (Head(ds).versionNumber - 1) + Revisions(Tail(ds))

Writes == Len(dishes) + Revisions(dishes)

\* A write in flight that its ingredient check will let through.
MayCommit(sl) ==
    /\ InFlight(sl)
    /\ sl.kind \in {"put", "post"}
    /\ ~MissingIngredientIds(sl.lines)
    /\ ~DuplicateIngredientIds(sl.lines)

\* The model admits a write that may commit only while the committed writes
\* and the admitted ones stay under the bound.
WithinBound(req, In) ==
    MayCommit(req)
        => Writes + Cardinality({t \in Slots : MayCommit(slots[t])}) < In.maxWrites

\* A request arrives at slot s and runs up to its first database read:
\* requests that overlap it in time are no longer sequential.
Begin(s, req, In) ==
    /\ slots[s].pc = "idle"
    /\ WithinBound(req, In)
    /\ slots' = [t \in Slots |->
                    IF t = s
                    THEN Held(s, [req EXCEPT !.solo =
                                    \A u \in Slots \ {s} : ~InFlight(slots[u])])
                    ELSE IF InFlight(slots[t])
                         THEN [slots[t] EXCEPT !.solo = FALSE]
                         ELSE slots[t]]
    /\ UNCHANGED <<chefs, ingredients, dishes, rows, answers, browser>>

\* A later step of the request at slot s that reads the database only.
Continue(s, sl) ==
    /\ slots' = [slots EXCEPT ![s] = Held(s, sl)]
    /\ UNCHANGED <<chefs, ingredients, dishes, rows, answers, browser>>

\* The request at slot s commits a transaction that leaves the tables as
\* (ds, rws); a read of dish dishId in flight has one more committed state
\* within its lifetime.
Commit(s, sl, ds, rws, dishId) ==
    /\ dishes' = ds
    /\ rows' = rws
    /\ slots' = [t \in Slots |->
                    IF t = s
                    THEN Held(s, [sl EXCEPT !.wrote =
                                    slots[s].wrote \/ ds # dishes \/ rws # rows])
                    ELSE IF /\ slots[t].kind = "get"
                            /\ slots[t].pc = "readRows"
                            /\ slots[t].dishId = dishId
                         THEN [slots[t] EXCEPT !.snaps = @ \cup {Snapshot(ds, rws, dishId)}]
                         ELSE slots[t]]
    /\ UNCHANGED <<chefs, ingredients, browser>>

(***************************************************************************)
(* PUT /api/dishes/[dishId]/ingredients                                    *)
(***************************************************************************)
\* Faulty variant: the comparison is inverted.
IsOwner(dish, chefId) == dish.chefId = chefId

\* Faulty variant: the ownership check is left out.
AnyoneOwns(dish, chefId) == FALSE

\* dish.chefId !== chefId
NotOwner(dish, chefId) == dish.chefId # chefId

\* validatedData.name && validatedData.name !== dish.name
NameChanges(name, dish) == name # NoName /\ name # dish.name

\* Path parameter, header and body checks, then the dish read and the
\* ownership check.
PutAfterReadDish(req) ==
    LET dish == FindDish(dishes, req.dishId)
    IN IF req.dishId <= 0 THEN Fail(req, ValidationError)
       ELSE IF req.chefId = NoHeader THEN Fail(req, ValidationError)
       ELSE IF req.chefId <= 0 THEN Fail(req, ValidationError)
       ELSE IF ~UpdateDishIngredientsSchemaOk(req.dishId, req.name, req.lines)
            THEN Fail(req, ZodError)
       ELSE IF dish = NoDish THEN Fail(req, NotFoundError)
       ELSE IF NotOwner(dish, req.chefId) THEN Fail(req, UnauthorizedError)
       ELSE [req EXCEPT !.dish = dish,
                        !.pc = IF NameChanges(req.name, dish)
                               THEN "nameCheck" ELSE "ingredientCheck"]

PutReadDish(s, In) ==
    \E chefId \in In.chefIds, dishId \in In.dishIds,
       name \in In.putNames, lines \in In.putLines :
        Begin(s, PutAfterReadDish(
                    NewRequest("put", chefId, dishId, name, lines, 1, 10)), In)

PutNameCheck(s) ==
    /\ slots[s].kind = "put"
    /\ slots[s].pc = "nameCheck"
    /\ Continue(s, IF OtherDishNamed(dishes, slots[s].chefId, slots[s].name,
                                     slots[s].dishId)
                   THEN Fail(slots[s], ConflictError)
                   ELSE [slots[s] EXCEPT !.pc = "ingredientCheck"])

\* Faulty variant: the duplicate check comes before the existence check.
IngredientCheckDuplicatesFirst(sl) ==
    IF DuplicateIngredientIds(sl.lines) THEN Fail(sl, ValidationError)
    ELSE IF MissingIngredientIds(sl.lines) THEN Fail(sl, NotFoundError)
    ELSE [sl EXCEPT !.pc = "transaction"]

\* The existence check comes first, the duplicate check second.
IngredientCheck(sl) ==
    IF MissingIngredientIds(sl.lines) THEN Fail(sl, NotFoundError)
    ELSE IF DuplicateIngredientIds(sl.lines) THEN Fail(sl, ValidationError)
    ELSE [sl EXCEPT !.pc = "transaction"]

PutIngredientCheck(s) ==
    /\ slots[s].kind = "put"
    /\ slots[s].pc = "ingredientCheck"
    /\ Continue(s, IngredientCheck(slots[s]))

\* const now = new Date(): the clock, as the number of the write.
Now(ds) == Len(ds) + Revisions(ds) + 1

\* Faulty variant: the version is left as it was.
NotIncremented(ds, dishId, dish) == ds[dishId].versionNumber

\* Faulty variant: the next version is computed from the read before the transaction.
StaleVersion(ds, dishId, dish) == dish.versionNumber + 1

\* Faulty variant: a revision skips a version.
IncrementedByTwo(ds, dishId, dish) == ds[dishId].versionNumber + 2

\* data: { versionNumber: { increment: 1 } }: the UPDATE reads the row it
\* writes; dish is the handler's read from before the transaction
IncrementedVersion(ds, dishId, dish) == ds[dishId].versionNumber + 1

\* Faulty variant: the name is written whether or not one is given.
OverwrittenName(ds, dishId, name) == name

\* if (validatedData.name) updateData.name = validatedData.name
UpdatedName(ds, dishId, name) == IF name # NoName THEN name ELSE ds[dishId].name

\* tx.dish.update({ where: { id: dishId }, data: updateData })
UpdateDish(ds, dishId, name, dish) ==
    [ds EXCEPT ![dishId] =
        [@ EXCEPT !.versionNumber = IncrementedVersion(ds, dishId, dish),
                  !.name = UpdatedName(ds, dishId, name),
                  !.updatedAt = Now(ds)]]

\* Faulty variant: the new lines replace the rows of the dish.
ReplaceMany(rws, dishId, lines, versionNumber) ==
    SelectSeq(rws, LAMBDA r : r.dishId # dishId)
        \o [i \in 1 .. Len(lines) |->
                [dishId |-> dishId,
                 ingredientId |-> lines[i].ingredientId,
                 ingredientAmount |-> lines[i].ingredientAmount,
                 versionNumber |-> versionNumber]]

\* Faulty variant: the transaction stores no line.
CreateNone(rws, dishId, lines, versionNumber) == rws

\* Faulty variant: the lines are stored twice.
CreateManyTwice(rws, dishId, lines, versionNumber) ==
    rws \o [i \in 1 .. 2 * Len(lines) |->
                [dishId |-> dishId,
                 ingredientId |-> lines[((i - 1) % Len(lines)) + 1].ingredientId,
                 ingredientAmount |-> lines[((i - 1) % Len(lines)) + 1].ingredientAmount,
                 versionNumber |-> versionNumber]]

\* Faulty variant: the new lines are stamped with the version before.
CreateManyAtPrevious(rws, dishId, lines, versionNumber) ==
    rws \o [i \in 1 .. Len(lines) |->
                [dishId |-> dishId,
                 ingredientId |-> lines[i].ingredientId,
                 ingredientAmount |-> lines[i].ingredientAmount,
                 versionNumber |-> versionNumber - 1]]

\* tx.dishingredient.createMany({ data: ingredients.map(...) })
CreateMany(rws, dishId, lines, versionNumber) ==
    rws \o [i \in 1 .. Len(lines) |->
                [dishId |-> dishId,
                 ingredientId |-> lines[i].ingredientId,
                 ingredientAmount |-> lines[i].ingredientAmount,
                 versionNumber |-> versionNumber]]

PutTransaction(s) ==
    /\ slots[s].kind = "put"
    /\ slots[s].pc = "transaction"
    /\ LET sl == slots[s]
           ds == UpdateDish(dishes, sl.dishId, sl.name, sl.dish)
           updatedDish == FindDish(ds, sl.dishId)
           rws == CreateMany(rows, sl.dishId, sl.lines, updatedDish.versionNumber)
           resp == [NoResp EXCEPT
                       !.status = 200,
                       !.id = updatedDish.id,
                       !.name = updatedDish.name,
                       !.chefId = updatedDish.chefId,
                       !.versionNumber = updatedDish.versionNumber,
                       !.ingredients = CurrentIngredients(rws, sl.dishId,
                                            updatedDish.versionNumber)]
       IN /\ Commit(s, [sl EXCEPT !.pc = "done", !.resp = resp], ds, rws, sl.dishId)
          /\ answers' = [answers EXCEPT ![sl.dishId] = Append(@,
                            [versionNumber |-> resp.versionNumber, lines |-> sl.lines])]

(***************************************************************************)
(* POST /api/dishes                                                        *)
(***************************************************************************)
\* Faulty variant: the chef is not looked up.
PostWithoutChefRead(req) ==
    IF req.chefId = NoHeader THEN Fail(req, ValidationError)
    ELSE IF req.chefId <= 0 THEN Fail(req, ValidationError)
    ELSE IF ~CreateDishSchemaOk(req.name, req.lines) THEN Fail(req, ZodError)
    ELSE [req EXCEPT !.pc = "nameCheck"]

\* Header and body checks, then the chef read.
PostAfterReadChef(req) ==
    IF req.chefId = NoHeader THEN Fail(req, ValidationError)
    ELSE IF req.chefId <= 0 THEN Fail(req, ValidationError)
    ELSE IF ~CreateDishSchemaOk(req.name, req.lines) THEN Fail(req, ZodError)
    ELSE IF req.chefId \notin DOMAIN chefs THEN Fail(req, NotFoundError)
    ELSE [req EXCEPT !.pc = "nameCheck"]

PostReadChef(s, In) ==
    \E chefId \in In.chefIds, name \in In.postNames, lines \in In.postLines :
        Begin(s, PostAfterReadChef(
                    NewRequest("post", chefId, 0, name, lines, 1, 10)), In)

PostNameCheck(s) ==
    /\ slots[s].kind = "post"
    /\ slots[s].pc = "nameCheck"
    /\ Continue(s, IF DishNamed(dishes, slots[s].chefId, slots[s].name)
                   THEN Fail(slots[s], ConflictError)
                   ELSE [slots[s] EXCEPT !.pc = "ingredientCheck"])

PostIngredientCheck(s) ==
    /\ slots[s].kind = "post"
    /\ slots[s].pc = "ingredientCheck"
    /\ Continue(s, IngredientCheck(slots[s]))

\* Faulty variant: the dish starts at version 0.
CreateDishUnversioned(ds, chefId, name) ==
    Append(ds, [chefId |-> chefId, name |-> name, versionNumber |-> 0,
                createdAt |-> Now(ds), updatedAt |-> Now(ds)])

\* tx.dish.create({ data: { chefId, name, versionNumber: 1, ... } })
CreateDish(ds, chefId, name) ==
    Append(ds, [chefId |-> chefId, name |-> name, versionNumber |-> 1,
                createdAt |-> Now(ds), updatedAt |-> Now(ds)])

PostTransaction(s) ==
    /\ slots[s].kind = "post"
    /\ slots[s].pc = "transaction"
    /\ LET sl == slots[s]
           ds == CreateDish(dishes, sl.chefId, sl.name)
           newDish == FindDish(ds, Len(ds))
           rws == CreateMany(rows, newDish.id, sl.lines, 1)
           resp == [NoResp EXCEPT
                       !.status = 201,
                       !.id = newDish.id,
                       !.name = newDish.name,
                       !.chefId = newDish.chefId,
                       !.versionNumber = newDish.versionNumber,
                       !.ingredients = CurrentIngredients(rws, newDish.id, 1)]
       IN /\ Commit(s, [sl EXCEPT !.pc = "done", !.dishId = newDish.id,
                                  !.resp = resp], ds, rws, newDish.id)
          /\ answers' = Append(answers, <<>>)

(***************************************************************************)
(* GET /api/dishes/[dishId]/ingredients                                    *)
(***************************************************************************)
\* Path parameter check, the dish read, then the optional ownership check.
GetAfterReadDish(req) ==
    LET dish == FindDish(dishes, req.dishId)
    IN IF req.dishId <= 0 THEN Fail(req, ValidationError)
       ELSE IF dish = NoDish THEN Fail(req, NotFoundError)
       ELSE IF req.chefId # NoHeader /\ req.chefId <= 0
            THEN Fail(req, ValidationError)
       ELSE IF req.chefId # NoHeader /\ NotOwner(dish, req.chefId)
            THEN Fail(req, UnauthorizedError)
       ELSE [req EXCEPT !.dish = dish, !.pc = "readRows",
                        !.snaps = {Snapshot(dishes, rows, req.dishId)}]

GetReadDish(s, In) ==
    \E chefId \in In.viewerIds, dishId \in In.dishIds :
        Begin(s, GetAfterReadDish(
                    NewRequest("get", chefId, dishId, NoName, <<>>, 1, 10)), In)

GetReadRows(s) ==
    /\ slots[s].kind = "get"
    /\ slots[s].pc = "readRows"
    /\ LET sl == slots[s]
           resp == [NoResp EXCEPT
                       !.status = 200,
                       !.id = sl.dish.id,
                       !.name = sl.dish.name,
                       !.chefId = sl.dish.chefId,
                       !.versionNumber = sl.dish.versionNumber,
                       !.ingredients = CurrentIngredients(rows, sl.dishId,
                                            sl.dish.versionNumber)]
       IN Continue(s, [sl EXCEPT !.pc = "done", !.resp = resp])

(***************************************************************************)
(* GET /api/dishes/[dishId]/ingredients/history                            *)
(***************************************************************************)
\* The loop over the ordered rows: a row of another version than the one
\* being collected closes the bucket.
RECURSIVE GroupLoop(_, _, _, _, _)
GroupLoop(rws, idx, grouped, currentVersion, bucket) ==
    IF idx = <<>>
    THEN IF Len(bucket) > 0
         THEN Append(grouped, [versionNumber |-> currentVersion,
                               ingredients |-> bucket])
         ELSE grouped
    ELSE LET row == rws[Head(idx)]
             closes == row.versionNumber # currentVersion
             line == L(row.ingredientId, row.ingredientAmount)
         IN GroupLoop(rws, Tail(idx),
                IF closes /\ Len(bucket) > 0
                THEN Append(grouped, [versionNumber |-> currentVersion,
                                      ingredients |-> bucket])
                ELSE grouped,
                row.versionNumber,
                IF closes THEN <<line>> ELSE Append(bucket, line))

Grouped(rws, dishId) ==
    GroupLoop(rws, OrderByVersionDesc(rws, RowsOfDish(rws, dishId)),
              <<>>, -1, <<>>)

\* Array.prototype.slice(start, end)
Slice(seq, start, end) ==
    LET len == Len(seq)
        from == IF start < 0 THEN (IF len + start < 0 THEN 0 ELSE len + start)
                ELSE (IF start > len THEN len ELSE start)
        to == IF end < 0 THEN (IF len + end < 0 THEN 0 ELSE len + end)
              ELSE (IF end > len THEN len ELSE end)
    IN IF to <= from THEN <<>> ELSE SubSeq(seq, from + 1, to)

\* Faulty variant: the offset counts pages, not groups.
OffsetInPages(current, pageSize) == current - 1

\* (current - 1) * pageSize
Offset(current, pageSize) == (current - 1) * pageSize

\* Faulty variant: the ownership check is in force.
HistoryForOwnerOnly(req) ==
    LET dish == FindDish(dishes, req.dishId)
    IN IF req.dishId <= 0 THEN Fail(req, ValidationError)
       ELSE IF dish = NoDish THEN Fail(req, NotFoundError)
       ELSE IF req.chefId # NoHeader /\ req.chefId <= 0
            THEN Fail(req, ValidationError)
       ELSE IF req.chefId # NoHeader /\ NotOwner(dish, req.chefId)
            THEN Fail(req, UnauthorizedError)
       ELSE [req EXCEPT !.dish = dish, !.pc = "readRows"]

\* Path parameter check, the dish read; the header is parsed and the
\* ownership check is commented out.
HistoryAfterReadDish(req) ==
    LET dish == FindDish(dishes, req.dishId)
    IN IF req.dishId <= 0 THEN Fail(req, ValidationError)
       ELSE IF dish = NoDish THEN Fail(req, NotFoundError)
       ELSE IF req.chefId # NoHeader /\ req.chefId <= 0
            THEN Fail(req, ValidationError)
       ELSE [req EXCEPT !.dish = dish, !.pc = "readRows"]

HistoryReadDish(s, In) ==
    \E chefId \in In.viewerIds, dishId \in In.dishIds,
       current \in In.currents, pageSize \in In.pageSizes :
        Begin(s, HistoryAfterReadDish(
                    NewRequest("history", chefId, dishId, NoName, <<>>,
                               current, pageSize)), In)

HistoryReadRows(s) ==
    /\ slots[s].kind = "history"
    /\ slots[s].pc = "readRows"
    /\ LET sl == slots[s]
           grouped == Grouped(rows, sl.dishId)
           offset == Offset(sl.current, sl.pageSize)
           resp == [NoResp EXCEPT
                       !.status = 200,
                       !.id = sl.dish.id,
                       !.name = sl.dish.name,
                       !.chefId = sl.dish.chefId,
                       !.versionNumber = sl.dish.versionNumber,
                       !.histories = Slice(grouped, offset, offset + sl.pageSize),
                       !.total = Len(grouped)]
       IN Continue(s, [sl EXCEPT !.pc = "done", !.resp = resp])

(***************************************************************************)
(* GET /api/dishes                                                         *)
(***************************************************************************)
\* Number(search) for the search words of the model; -1 stands for NaN and
\* for every number that is no integer.
SearchNumber(search) ==
    IF search = "1" THEN 1 ELSE IF search = "2" THEN 2
    ELSE IF search = "3" THEN 3 ELSE -1

\* where: OR [name contains search, versionNumber = Number(search) if it is
\* an integer], or no filter without a search word.  The names and search
\* words of the model are one character long: contains is equality.
Where(ds, search) ==
    {d \in 1 .. Len(ds) :
        \/ search \in {NoName, ""}
        \/ ds[d].name = search
        \/ SearchNumber(search) # -1 /\ ds[d].versionNumber = SearchNumber(search)}

\* orderBy: { updatedAt: "desc" }
RECURSIVE OrderByUpdatedAtDesc(_, _)
OrderByUpdatedAtDesc(ds, D) ==
    IF D = {} THEN <<>>
    ELSE LET m == CHOOSE d \in D : \A e \in D :
                    \/ ds[d].updatedAt > ds[e].updatedAt
                    \/ ds[d].updatedAt = ds[e].updatedAt /\ d <= e
         IN <<m>> \o OrderByUpdatedAtDesc(ds, D \ {m})

\* skip = (current - 1) * pageSize
Skip(current, pageSize) == (current - 1) * pageSize

\* prisma.dish.findMany({ where, select, orderBy, skip, take })
FindManyDishes(ds, search, current, pageSize) ==
    LET ordered == OrderByUpdatedAtDesc(ds, Where(ds, search))
        skip == Skip(current, pageSize)
        page == IF skip >= Len(ordered) THEN <<>>
                ELSE SubSeq(ordered, skip + 1,
                            IF skip + pageSize > Len(ordered)
                            THEN Len(ordered) ELSE skip + pageSize)
    IN [k \in 1 .. Len(page) |->
            [id |-> page[k], chefId |-> ds[page[k]].chefId,
             chefName |-> chefs[ds[page[k]].chefId].name,
             name |-> ds[page[k]].name,
             versionNumber |-> ds[page[k]].versionNumber]]

\* Promise.all([count, findMany]): two queries outside a transaction, which
\* the database may serve in either order and with a commit between them.
ListAfterFirstRead(req, first) ==
    IF first = "count"
    THEN [req EXCEPT !.count = Cardinality(Where(dishes, req.search)),
                     !.pc = "findMany"]
    ELSE [req EXCEPT !.found = FindManyDishes(dishes, req.search, req.current,
                                              req.pageSize),
                     !.pc = "count"]

ListReadFirst(s, In) ==
    \E current \in In.currents, pageSize \in In.pageSizes,
       search \in In.searches, first \in {"count", "findMany"} :
        Begin(s, ListAfterFirstRead(
                    [NewRequest("list", NoHeader, 0, NoName, <<>>,
                                current, pageSize) EXCEPT !.search = search],
                    first), In)

\* The response of the handler, the ingredients of the listed dishes given.
ListResponse(sl, found, ingredientsOf) ==
    [NoResp EXCEPT
        !.status = 200,
        !.data = [k \in 1 .. Len(found) |->
                    [id |-> found[k].id, chefId |-> found[k].chefId,
                     chefName |-> found[k].chefName, name |-> found[k].name,
                     versionNumber |-> found[k].versionNumber,
                     ingredients |-> ingredientsOf[k]]],
        !.total = sl.count]

\* The other query of the pair; dishIds.length = 0 skips the row query.
ListReadSecond(s) ==
    /\ slots[s].kind = "list"
    /\ slots[s].pc \in {"count", "findMany"}
    /\ LET sl == slots[s]
           read == IF sl.pc = "count"
                   THEN [sl EXCEPT !.count = Cardinality(Where(dishes, sl.search))]
                   ELSE [sl EXCEPT !.found = FindManyDishes(dishes, sl.search,
                                                sl.current, sl.pageSize)]
       IN Continue(s, IF read.found = <<>>
                      THEN [read EXCEPT !.pc = "done",
                                        !.resp = ListResponse(read, <<>>, <<>>)]
                      ELSE [read EXCEPT !.pc = "listRows"])

\* where: { dishId: { in: dishIds } }
RowsOfDishes(rws, found) ==
    {i \in 1 .. Len(rws) : \E k \in 1 .. Len(found) : rws[i].dishId = found[k].id}

\* Faulty variant: the rows of every version of the dish are pushed.
RECURSIVE PushedOfEveryVersion(_, _, _, _)
PushedOfEveryVersion(rws, idx, dishId, currentVersion) ==
    IF idx = <<>> THEN <<>>
    ELSE LET di == rws[Head(idx)]
             rest == PushedOfEveryVersion(rws, Tail(idx), dishId, currentVersion)
         IN IF di.dishId # dishId THEN rest
            ELSE <<L(di.ingredientId, di.ingredientAmount)>> \o rest

\* for (const di of dishingredient): what the loop pushes for one dish;
\* a row of another version than dishIdToVersion[di.dishId] is skipped
RECURSIVE Pushed(_, _, _, _)
Pushed(rws, idx, dishId, currentVersion) ==
    IF idx = <<>> THEN <<>>
    ELSE LET di == rws[Head(idx)]
             rest == Pushed(rws, Tail(idx), dishId, currentVersion)
         IN IF di.dishId # dishId \/ di.versionNumber # currentVersion THEN rest
            ELSE <<L(di.ingredientId, di.ingredientAmount)>> \o rest

\* prisma.dishingredient.findMany for the listed dishes, the loop, the response
ListReadRows(s) ==
    /\ slots[s].kind = "list"
    /\ slots[s].pc = "listRows"
    /\ LET sl == slots[s]
           dishingredient == OrderByIngredientId(rows, RowsOfDishes(rows, sl.found))
           dishIdToIngredients ==
                [k \in 1 .. Len(sl.found) |->
                    Pushed(rows, dishingredient, sl.found[k].id,
                           sl.found[k].versionNumber)]
       IN Continue(s, [sl EXCEPT !.pc = "done",
                                 !.resp = ListResponse(sl, sl.found,
                                                       dishIdToIngredients)])

(***************************************************************************)
(* The ingredient and chef tables.  ingredient.name and chef.username are  *)
(* looked up with findUnique: they carry a unique index, and a create or   *)
(* update that would store a second row with the value is rejected by the  *)
(* database (PrismaClientKnownRequestError P2002).                         *)
(***************************************************************************)
\* bcrypt.hash(password, 10) and bcrypt.compare(password, hash): the hash
\* is not the password, and only the password it was made of matches it.
Hash(password) == <<"bcrypt", password>>

Compare(password, hash) == hash = Hash(password)

\* The unique index: another row than exceptId holds the value.
UniqueViolation(values, value, exceptId) ==
    \E i \in 1 .. Len(values) : i # exceptId /\ values[i] = value

IngredientNames(igs) == [i \in 1 .. Len(igs) |-> igs[i].name]

Usernames(chs) == [i \in 1 .. Len(chs) |-> chs[i].username]

\* Faulty variant: the lookup finds nothing.
NoIngredientNamed(igs, name) == 0

\* prisma.ingredient.findUnique({ where: { name } }): the id, 0 for null
IngredientNamed(igs, name) ==
    IF \E i \in 1 .. Len(igs) : igs[i].name = name
    THEN CHOOSE i \in 1 .. Len(igs) : igs[i].name = name
    ELSE 0

\* prisma.chef.findUnique({ where: { username } }): the id, 0 for null
ChefWithUsername(chs, username) ==
    IF \E i \in 1 .. Len(chs) : chs[i].username = username
    THEN CHOOSE i \in 1 .. Len(chs) : chs[i].username = username
    ELSE 0

\* A request on the ingredient or chef tables arrives.
CatalogRequest(kind, ingredientId, name, unit, username) ==
    [IdleSlot EXCEPT !.kind = kind, !.ingredientId = ingredientId,
                     !.name = name, !.unit = unit, !.username = username,
                     !.preIngredients = ingredients, !.preChefs = chefs]

\* A step of the request at slot s that leaves the two tables as (chs, igs).
CatalogStep(s, sl, chs, igs) ==
    /\ chefs' = chs
    /\ ingredients' = igs
    /\ slots' = [slots EXCEPT ![s] =
                    Held(s, [sl EXCEPT !.wrote =
                                slots[s].wrote \/ chs # chefs \/ igs # ingredients])]
    /\ UNCHANGED <<dishes, rows, answers, browser>>

(***************************************************************************)
(* POST /api/ingredients                                                   *)
(***************************************************************************)
\* createIngredientSchema: name and unit are required, min(1)
CreateIngredientSchemaOk(name, unit) ==
    name \notin {NoName, ""} /\ unit \notin {NoName, ""}

\* Body validation, then the lookup of the name.
IngredientPostAfterCheck(req) ==
    IF ~CreateIngredientSchemaOk(req.name, req.unit) THEN Fail(req, ZodError)
    ELSE IF IngredientNamed(ingredients, req.name) # 0
         THEN Fail(req, ConflictError)
    ELSE [req EXCEPT !.pc = "create"]

IngredientPostCheck(s, In) ==
    \E name \in In.ingredientNames, unit \in In.units :
        Begin(s, IngredientPostAfterCheck(
                    CatalogRequest("postIngredient", 0, name, unit, NoName)), In)

\* prisma.ingredient.create; a P2002 is no AppError: the catch answers 500.
IngredientPostCreate(s) ==
    /\ slots[s].kind = "postIngredient"
    /\ slots[s].pc = "create"
    /\ LET sl == slots[s]
           igs == Append(ingredients, [name |-> sl.name, unit |-> sl.unit])
           resp == [NoResp EXCEPT !.status = 201, !.id = Len(igs),
                                  !.name = sl.name, !.unit = sl.unit]
       IN IF UniqueViolation(IngredientNames(ingredients), sl.name, 0)
          THEN CatalogStep(s, Fail(sl, PrismaUniqueError), chefs, ingredients)
          ELSE CatalogStep(s, [sl EXCEPT !.pc = "done", !.ingredientId = Len(igs),
                                         !.resp = resp], chefs, igs)

(***************************************************************************)
(* PUT /api/ingredients/[ingredientId]                                     *)
(***************************************************************************)
\* updateIngredientSchema: name and unit are optional, min(1) when given,
\* and one of them is given
UpdateIngredientSchemaOk(name, unit) ==
    /\ name # ""
    /\ unit # ""
    /\ name # NoName \/ unit # NoName

\* Path parameter and body validation, then the read of the ingredient.
IngredientPutAfterRead(req) ==
    IF req.ingredientId <= 0 THEN Fail(req, ValidationError)
    ELSE IF ~UpdateIngredientSchemaOk(req.name, req.unit) THEN Fail(req, ZodError)
    ELSE IF req.ingredientId \notin DOMAIN ingredients
         THEN Fail(req, NotFoundError)
    ELSE [req EXCEPT !.pc = IF req.name # NoName THEN "nameCheck" ELSE "update"]

IngredientPutRead(s, In) ==
    \E ingredientId \in In.ingredientIds,
       name \in In.ingredientNames \cup {NoName},
       unit \in In.units \cup {NoName} :
        Begin(s, IngredientPutAfterRead(
                    CatalogRequest("putIngredient", ingredientId, name, unit,
                                   NoName)), In)

\* duplicateIngredient && duplicateIngredient.id !== ingredientId
IngredientPutNameCheck(s) ==
    /\ slots[s].kind = "putIngredient"
    /\ slots[s].pc = "nameCheck"
    /\ LET sl == slots[s]
           duplicateIngredient == IngredientNamed(ingredients, sl.name)
       IN Continue(s, IF duplicateIngredient # 0
                         /\ duplicateIngredient # sl.ingredientId
                      THEN Fail(sl, ConflictError)
                      ELSE [sl EXCEPT !.pc = "update"])

\* prisma.ingredient.update({ data: { ...updateData } })
UpdateIngredient(igs, ingredientId, name, unit) ==
    [igs EXCEPT ![ingredientId] =
        [name |-> IF name # NoName THEN name ELSE @.name,
         unit |-> IF unit # NoName THEN unit ELSE @.unit]]

IngredientPutUpdate(s) ==
    /\ slots[s].kind = "putIngredient"
    /\ slots[s].pc = "update"
    /\ LET sl == slots[s]
           igs == UpdateIngredient(ingredients, sl.ingredientId, sl.name, sl.unit)
           resp == [NoResp EXCEPT !.status = 200, !.id = sl.ingredientId,
                                  !.name = igs[sl.ingredientId].name,
                                  !.unit = igs[sl.ingredientId].unit]
       IN IF /\ sl.name # NoName
             /\ UniqueViolation(IngredientNames(ingredients), sl.name,
                                sl.ingredientId)
          THEN CatalogStep(s, Fail(sl, PrismaUniqueError), chefs, ingredients)
          ELSE CatalogStep(s, [sl EXCEPT !.pc = "done", !.resp = resp], chefs, igs)

(***************************************************************************)
(* POST /api/chefs                                                         *)
(***************************************************************************)
\* createChefSchema: name, username min(1), password min(6); the passwords
\* of the model are "" (too short) and words of six letters or more
CreateChefSchemaOk(name, username, password) ==
    /\ name \notin {NoName, ""}
    /\ username \notin {NoName, ""}
    /\ password \notin {NoName, ""}

\* Body validation, then the lookup of the username.
ChefPostAfterCheck(req) ==
    IF ~CreateChefSchemaOk(req.name, req.username, req.password)
    THEN Fail(req, ZodError)
    ELSE IF ChefWithUsername(chefs, req.username) # 0
         THEN Fail(req, ConflictError)
    ELSE [req EXCEPT !.pc = "create"]

ChefPostCheck(s, In) ==
    \E name \in In.chefNames, username \in In.usernames,
       password \in In.passwords :
        Begin(s, ChefPostAfterCheck(
                    [CatalogRequest("postChef", 0, name, NoName, username)
                        EXCEPT !.password = password]), In)

\* bcrypt.hash, then prisma.chef.create; a P2002 is answered 500.
ChefPostCreate(s) ==
    /\ slots[s].kind = "postChef"
    /\ slots[s].pc = "create"
    /\ LET sl == slots[s]
           chs == Append(chefs, [username |-> sl.username, name |-> sl.name,
                                 password |-> Hash(sl.password),
                                 updatedAt |-> 0])
           resp == [NoResp EXCEPT !.status = 201, !.id = Len(chs),
                                  !.name = sl.name, !.username = sl.username]
       IN IF UniqueViolation(Usernames(chefs), sl.username, 0)
          THEN CatalogStep(s, Fail(sl, PrismaUniqueError), chefs, ingredients)
          ELSE CatalogStep(s, [sl EXCEPT !.pc = "done", !.resp = resp],
                           chs, ingredients)

(***************************************************************************)
(* POST /api/chefs/login                                                   *)
(***************************************************************************)
\* loginChefSchema: username and password are required, min(1)
LoginChefSchemaOk(username, password) ==
    username \notin {NoName, ""} /\ password \notin {NoName, ""}

\* Faulty variant: an unknown username is told apart from a wrong password.
LoginTellingUsernames(req) ==
    LET id == ChefWithUsername(chefs, req.username)
    IN IF ~LoginChefSchemaOk(req.username, req.password)
       THEN Fail(req, ZodError)
       ELSE IF id = 0
            THEN Fail(req, Thrown(NotFoundError, "Chef not found"))
       ELSE IF ~Compare(req.password, chefs[id].password)
            THEN Fail(req, Thrown(UnauthorizedError,
                                  "Invalid username or password"))
       ELSE [req EXCEPT !.pc = "done",
                        !.resp = [NoResp EXCEPT !.status = 200, !.id = id,
                                                !.name = chefs[id].name,
                                                !.username = chefs[id].username,
                                                !.message = "Login successful"]]

\* schema, prisma.chef.findUnique by username, bcrypt.compare, response
LoginAfterFind(req) ==
    LET id == ChefWithUsername(chefs, req.username)
    IN IF ~LoginChefSchemaOk(req.username, req.password)
       THEN Fail(req, ZodError)
       ELSE IF id = 0
            THEN Fail(req, Thrown(UnauthorizedError,
                                  "Invalid username or password"))
       ELSE IF ~Compare(req.password, chefs[id].password)
            THEN Fail(req, Thrown(UnauthorizedError,
                                  "Invalid username or password"))
       ELSE [req EXCEPT !.pc = "done",
                        !.resp = [NoResp EXCEPT !.status = 200, !.id = id,
                                                !.name = chefs[id].name,
                                                !.username = chefs[id].username,
                                                !.message = "Login successful"]]

Login(s, In) ==
    \E username \in In.usernames, password \in In.loginPasswords :
        Begin(s, LoginAfterFind(
                    [CatalogRequest("login", 0, NoName, NoName, username)
                        EXCEPT !.password = password]), In)

(***************************************************************************)
(* PUT /api/chefs/[chefId]                                                 *)
(***************************************************************************)
\* updateChefSchema: name is required, min(1)
UpdateChefSchemaOk(name) == name \notin {NoName, ""}

\* parseInt of the path parameter, schema, prisma.chef.findUnique by id
ChefPutAfterRead(req) ==
    IF req.chefId <= 0 THEN Fail(req, Thrown(ValidationError, "Invalid chef ID"))
    ELSE IF ~UpdateChefSchemaOk(req.name) THEN Fail(req, ZodError)
    ELSE IF req.chefId \notin DOMAIN chefs
         THEN Fail(req, Thrown(NotFoundError, "Chef not found"))
    ELSE [req EXCEPT !.pc = "update"]

ChefPutRead(s, In) ==
    \E chefId \in In.chefIds, name \in In.newNames :
        Begin(s, ChefPutAfterRead(
                    [CatalogRequest("putChef", 0, name, NoName, NoName)
                        EXCEPT !.chefId = chefId]), In)

\* Faulty variant: the update writes the name into the username as well.
UpdateChefAndUsername(chs, chefId, name) ==
    [chs EXCEPT ![chefId].name = name, ![chefId].username = name,
                ![chefId].updatedAt = 1]

\* prisma.chef.update: data { name, updatedAt: new Date() }
UpdateChef(chs, chefId, name) ==
    [chs EXCEPT ![chefId].name = name, ![chefId].updatedAt = 1]

\* The duplicate-name check is commented out in the handler: the update
\* follows the read at once.
ChefPutUpdate(s) ==
    /\ slots[s].kind = "putChef"
    /\ slots[s].pc = "update"
    /\ LET sl == slots[s]
           chs == UpdateChef(chefs, sl.chefId, sl.name)
           resp == [NoResp EXCEPT !.status = 200, !.id = sl.chefId,
                                  !.name = sl.name,
                                  !.username = chs[sl.chefId].username,
                                  !.message = "Chef updated successfully"]
       IN CatalogStep(s, [sl EXCEPT !.pc = "done", !.resp = resp],
                      chs, ingredients)

(***************************************************************************)
(* The client: RootLayout renders AuthGuard around AppLayout and the page. *)
(***************************************************************************)
Paths == {"/login", "/chefs", "/ingredients", "/dishes"}

\* sessionStorage.getItem of a key that is not set, and the null of
\* getCurrentChef
NoItem == <<>>
NoChef == [id |-> 0, name |-> NoName, username |-> NoName]
NoNavigation == "<none>"

\* JSON.stringify(chef) and JSON.parse(chefStr)
Stringify(chef) == <<"json", chef.id, chef.name, chef.username>>

Parse(chefStr) == [id |-> chefStr[2], name |-> chefStr[3], username |-> chefStr[4]]

\* auth.getCurrentChef: the item of session storage, parsed, or null
GetCurrentChef(storage) == IF storage = NoItem THEN NoChef ELSE Parse(storage)

\* auth.setCurrentChef and auth.clearCurrentChef
SetCurrentChef(chef) == Stringify(chef)

ClearCurrentChef == NoItem

\* auth.isAuthenticated
IsAuthenticated(storage) == GetCurrentChef(storage) # NoChef

\* What AuthGuard returns: nothing while checking, its children after.
AuthGuard(isChecking) == IF isChecking THEN "null" ELSE "children"

\* The document is loaded at a path: every component mounts with its
\* initial state (isChecking = true) and the effect of AuthGuard is due;
\* session storage lives as long as the tab.
Load(path, storage) ==
    [pathname |-> path, storage |-> storage, isChecking |-> TRUE,
     rendered |-> AuthGuard(TRUE), navigation |-> NoNavigation,
     effect |-> TRUE, pageEffect |-> FALSE,
     currentChef |-> NoChef, layoutEffect |-> FALSE]

\* React commits a render of AuthGuard with the state b: the effect of
\* AuthGuard is due when pathname has changed, and the effect of the
\* login page when that page has mounted.  AppLayout mounts with the first
\* render of the children, useState(auth.getCurrentChef()), and its effect
\* is due then and when pathname has changed.
Rendered(b) ==
    LET out == AuthGuard(b.isChecking)
        shows(c) == c.rendered = "children" /\ c.pathname = "/login"
        mounts == out = "children" /\ browser.rendered = "null"
    IN [b EXCEPT !.rendered = out,
                 !.effect = b.effect \/ b.pathname # browser.pathname,
                 !.currentChef = IF mounts THEN GetCurrentChef(b.storage) ELSE @,
                 !.layoutEffect =
                    /\ out = "children"
                    /\ (b.layoutEffect \/ mounts \/ b.pathname # browser.pathname),
                 !.pageEffect =
                    /\ out = "children"
                    /\ b.pathname = "/login"
                    /\ (b.pageEffect \/ ~shows(browser))]

BrowserStep(b) ==
    /\ browser' = b
    /\ UNCHANGED <<chefs, ingredients, dishes, rows, slots, answers>>

\* The visitor opens or reloads a path of the application.
OpenPath ==
    \E path \in Paths : BrowserStep(Load(path, browser.storage))

\* useEffect of AppLayout, deps [pathname]: setCurrentChef(auth.getCurrentChef())
AppLayoutEffect ==
    /\ browser.layoutEffect
    /\ BrowserStep([browser EXCEPT
            !.layoutEffect = FALSE,
            !.currentChef = GetCurrentChef(browser.storage)])

\* useEffect of AuthGuard, deps [pathname, router]; the effects of the
\* components it renders run before its own
AuthGuardEffect ==
    /\ ~browser.layoutEffect
    /\ browser.effect
    /\ LET ran == [browser EXCEPT !.effect = FALSE]
       IN IF browser.pathname = "/login"
          THEN BrowserStep(Rendered([ran EXCEPT !.isChecking = FALSE]))
          ELSE IF ~IsAuthenticated(browser.storage)
               THEN BrowserStep(Rendered([ran EXCEPT !.navigation = "/login",
                                                     !.isChecking = FALSE]))
          ELSE BrowserStep(Rendered([ran EXCEPT !.isChecking = FALSE]))

\* useEffect of the login page: a logged-in visitor is sent to /chefs.
LoginPageEffect ==
    /\ ~browser.layoutEffect
    /\ ~browser.effect
    /\ browser.pageEffect
    /\ BrowserStep([browser EXCEPT
            !.pageEffect = FALSE,
            !.navigation = IF IsAuthenticated(browser.storage)
                           THEN "/chefs" ELSE @])

\* The effects run before the browser handles the next event.
Settled == ~browser.effect /\ ~browser.pageEffect /\ ~browser.layoutEffect

\* The layout with its menu is on the screen.
LayoutShown ==
    Settled /\ browser.rendered = "children" /\ browser.pathname # "/login"

\* The navigation of router.push completes: usePathname returns the new
\* path and the tree renders again.
NavigationCompletes ==
    /\ Settled
    /\ browser.navigation # NoNavigation
    /\ BrowserStep(Rendered([browser EXCEPT !.pathname = browser.navigation,
                                            !.navigation = NoNavigation]))

\* AppLayout.handleMenuClick: router.push(key)
HandleMenuClick ==
    /\ LayoutShown
    /\ \E key \in Paths \ {"/login"} :
        BrowserStep([browser EXCEPT !.navigation = key])

\* AppLayout.handleLogout: auth.clearCurrentChef(), router.push("/login")
HandleLogout ==
    /\ LayoutShown
    /\ BrowserStep([browser EXCEPT !.storage = ClearCurrentChef,
                                   !.navigation = "/login"])

\* The login page's handleSubmit with the credentials of a registered chef:
\* auth.setCurrentChef(response.data), router.push("/chefs")
HandleSubmit ==
    /\ Settled
    /\ browser.rendered = "children"
    /\ browser.pathname = "/login"
    /\ \E id \in DOMAIN chefs :
        BrowserStep([browser EXCEPT
            !.storage = SetCurrentChef([id |-> id, name |-> chefs[id].name,
                                        username |-> chefs[id].username]),
            !.navigation = "/chefs"])

(***************************************************************************)
(* The response is sent and the handler returns.                           *)
(***************************************************************************)
Respond(s) ==
    /\ s = Observed
    /\ slots[s].pc = "done"
    /\ Continue(s, IdleSlot)

(***************************************************************************)
(* The system: two registered chefs, two ingredients in the catalog, no    *)
(* dish yet.                                                               *)
(***************************************************************************)
Init ==
    /\ chefs = <<[username |-> "u1", name |-> "n1",
                  password |-> Hash("secret1"), updatedAt |-> 0],
                 [username |-> "u2", name |-> "n2",
                  password |-> Hash("secret2"), updatedAt |-> 0]>>
    /\ ingredients = <<[name |-> "x", unit |-> "g"],
                       [name |-> "y", unit |-> "g"]>>
    /\ dishes = <<>>
    /\ rows = <<>>
    /\ slots = [s \in Slots |-> IdleSlot]
    /\ answers = <<>>
    /\ browser = Load("/login", NoItem)

\* The writes run at either slot; the reads change nothing, so only the
\* observed request is ever a read.
WriteStep(In, InOther) ==
    \/ PutReadDish(Observed, In)
    \/ PutReadDish(Racing, InOther)
    \/ PostReadChef(Observed, In)
    \/ PostReadChef(Racing, InOther)
    \/ \E s \in Slots :
        \/ PutNameCheck(s)
        \/ PutIngredientCheck(s)
        \/ PutTransaction(s)
        \/ PostNameCheck(s)
        \/ PostIngredientCheck(s)
        \/ PostTransaction(s)

ReadStep(In) ==
    \/ GetReadDish(Observed, In)
    \/ GetReadRows(Observed)
    \/ HistoryReadDish(Observed, In)
    \/ HistoryReadRows(Observed)

Next ==
    \/ WriteStep(InCore, InCore)
    \/ ReadStep(InCore)
    \/ Respond(Observed)

Spec == Init /\ [][Next]_vars

NextErrors ==
    \/ WriteStep(InErrors, InRacing)
    \/ Respond(Observed)

SpecErrors == Init /\ [][NextErrors]_vars

NextHistory ==
    \/ WriteStep(InHistory, InHistory)
    \/ ReadStep(InHistory)
    \/ Respond(Observed)

SpecHistory == Init /\ [][NextHistory]_vars

ListStep(In) ==
    \/ ListReadFirst(Observed, In)
    \/ ListReadSecond(Observed)
    \/ ListReadRows(Observed)

NextList ==
    \/ WriteStep(InList, InList)
    \/ ListStep(InList)
    \/ Respond(Observed)

SpecList == Init /\ [][NextList]_vars

\* The ingredient and chef tables, written by two concurrent requests.
CatalogRequestStep(s, In) ==
    \/ IngredientPostCheck(s, In)
    \/ IngredientPostCreate(s)
    \/ IngredientPutRead(s, In)
    \/ IngredientPutNameCheck(s)
    \/ IngredientPutUpdate(s)
    \/ ChefPostCheck(s, In)
    \/ ChefPostCreate(s)

NextCatalog ==
    \/ CatalogRequestStep(Observed, InCatalog)
    \/ CatalogRequestStep(Racing, InCatalogRacing)
    \/ Respond(Observed)

SpecCatalog == Init /\ [][NextCatalog]_vars

ChefRequestStep(s, In) ==
    \/ ChefPostCheck(s, In)
    \/ ChefPostCreate(s)
    \/ ChefPutRead(s, In)
    \/ ChefPutUpdate(s)

\* The chefs of a kitchen that already serves a dish: chef 1 has created
\* dish "a" with the lines LinesB.
InitChefs ==
    /\ chefs = <<[username |-> "u1", name |-> "n1",
                  password |-> Hash("secret1"), updatedAt |-> 0],
                 [username |-> "u2", name |-> "n2",
                  password |-> Hash("secret2"), updatedAt |-> 0]>>
    /\ ingredients = <<[name |-> "x", unit |-> "g"],
                       [name |-> "y", unit |-> "g"]>>
    /\ dishes = CreateDish(<<>>, 1, "a")
    /\ rows = CreateMany(<<>>, 1, LinesB, 1)
    /\ slots = [s \in Slots |-> IdleSlot]
    /\ answers = <<>>
    /\ browser = Load("/login", NoItem)

NextChefs ==
    \/ ChefRequestStep(Observed, InChefs)
    \/ ChefRequestStep(Racing, InChefsRacing)
    \/ Login(Observed, InChefs)
    \/ Respond(Observed)

SpecChefs == InitChefs /\ [][NextChefs]_vars

NextBrowser ==
    \/ OpenPath
    \/ AppLayoutEffect
    \/ AuthGuardEffect
    \/ LoginPageEffect
    \/ NavigationCompletes
    \/ HandleMenuClick
    \/ HandleLogout
    \/ HandleSubmit

SpecBrowser == Init /\ [][NextBrowser]_vars

(***************************************************************************)
(* The observed request, as the claims speak of it.                        *)
(***************************************************************************)
O == slots[Observed]

Answered(kind) == O.kind = kind /\ O.pc = "done"

\* The dish the request names, as it was when the request arrived.
Target == IF O.dishId \in 1 .. Len(O.pre) THEN O.pre[O.dishId] ELSE NoDish

DishIds == 1 .. Len(dishes)

\* The request passes the header and body (schema) validation of PUT.
PutWellFormed ==
    /\ O.chefId > 0
    /\ O.dishId > 0
    /\ O.name # ""
    /\ Len(O.lines) >= 1
    /\ \A i \in 1 .. Len(O.lines) :
        O.lines[i].ingredientId > 0 /\ O.lines[i].ingredientAmount >= 0

HasMissingId == \E i \in 1 .. Len(O.lines) : O.lines[i].ingredientId \notin DOMAIN ingredients

HasRepeatedId ==
    \E i, j \in 1 .. Len(O.lines) :
        i # j /\ O.lines[i].ingredientId = O.lines[j].ingredientId

\* PUT by the owner of an existing dish / by another chef.
PutByOwner == Answered("put") /\ Target # NoDish /\ O.chefId = Target.chefId

PutByOther ==
    Answered("put") /\ Target # NoDish /\ O.chefId > 0 /\ O.chefId # Target.chefId

\* The request renames the dish.
Renames == O.name # NoName /\ O.name # Target.name

Is(e) == O.resp.status = e.status /\ O.resp.code = e.code

\* The rows of version v of dish d, in insertion order.
RowsAt(d, v) ==
    SelectSeq(rows, LAMBDA r : r.dishId = d /\ r.versionNumber = v)

LinesAsRows(d, v, lines) ==
    [i \in 1 .. Len(lines) |->
        [dishId |-> d, ingredientId |-> lines[i].ingredientId,
         ingredientAmount |-> lines[i].ingredientAmount, versionNumber |-> v]]

(***************************************************************************)
(* C1.  In every reachable state every dish's versionNumber is 1 plus the  *)
(* number of PUT requests on it that were answered 200: 1 when created,    *)
(* one more per successful revision, under every interleaving.             *)
(***************************************************************************)
C1_VersionCountsRevisions ==
    /\ Len(answers) = Len(dishes)
    /\ \A d \in DishIds : dishes[d].versionNumber = 1 + Len(answers[d])

\* A dish that two revisions have succeeded on.
C1_Witness ==
    \E d \in DishIds : Len(answers[d]) = 2 /\ dishes[d].versionNumber = 3

(***************************************************************************)
(* C2.  A step in which a revision of dish d succeeds keeps every row that *)
(* existed before it, unchanged and in place, and every row it adds is a   *)
(* row of d stamped with d's new versionNumber.                            *)
(***************************************************************************)
C2_ReviseOnlyAddsRows ==
    [][\A d \in DishIds :
          (d \in 1 .. Len(answers') /\ answers'[d] # answers[d])
          => /\ Len(rows') >= Len(rows)
             /\ SubSeq(rows', 1, Len(rows)) = rows
             /\ \A i \in (Len(rows) + 1) .. Len(rows') :
                    /\ rows'[i].dishId = d
                    /\ rows'[i].versionNumber = dishes'[d].versionNumber]_vars

\* A revised dish whose first version is still stored, beside another dish.
C2_Witness ==
    \E d \in DishIds :
        /\ dishes[d].versionNumber = 2
        /\ RowsAt(d, 1) # <<>>
        /\ RowsAt(d, 2) # <<>>
        /\ \E e \in DishIds : e # d /\ RowsAt(e, 1) # <<>>

(***************************************************************************)
(* C3.  A 200 response of GET /dishes/{id}/ingredients lists exactly the   *)
(* rows of the dish whose versionNumber is the one the response reports,   *)
(* and (versionNumber, lines) is the dish's composition in a state         *)
(* committed during the read.                                              *)
(***************************************************************************)
C3_CurrentCompositionIsOneVersion ==
    (Answered("get") /\ O.resp.status = 200)
    => LET listed == {O.resp.ingredients[i] : i \in 1 .. Len(O.resp.ingredients)}
       IN /\ listed = Composition(rows, O.dishId, O.resp.versionNumber)
          /\ Len(O.resp.ingredients) = Len(RowsAt(O.dishId, O.resp.versionNumber))
          /\ \E snap \in O.snaps :
                /\ snap.versionNumber = O.resp.versionNumber
                /\ snap.lines = listed

\* A read that a revision raced: it answers with the state before it.
C3_Witness ==
    /\ Answered("get")
    /\ O.resp.status = 200
    /\ Cardinality(O.snaps) = 2
    /\ O.resp.versionNumber < dishes[O.dishId].versionNumber

(***************************************************************************)
(* C4.  The successful revisions of a dish receive the version numbers     *)
(* 2, 3, ... in the order of their commits, one each, also when they run   *)
(* concurrently, and the rows stored under each of these numbers are the   *)
(* lines of the one request that received it.                              *)
(***************************************************************************)
C4_NoLostUpdate ==
    \A d \in 1 .. Len(answers) :
        \A i \in 1 .. Len(answers[d]) :
            /\ answers[d][i].versionNumber = i + 1
            /\ RowsAt(d, i + 1) = LinesAsRows(d, i + 1, answers[d][i].lines)

\* A revision answered 200 that another revision of the dish overtook
\* between its read of the dish and its transaction.
C4_Witness ==
    /\ Answered("put")
    /\ O.resp.status = 200
    /\ O.resp.versionNumber > O.dish.versionNumber + 1

(***************************************************************************)
(* C5.  In every reachable state no two dishes of one chef have the same   *)
(* name.                                                                   *)
(***************************************************************************)
C5_NameUniquePerChef ==
    \A i, j \in DishIds :
        (i # j /\ dishes[i].chefId = dishes[j].chefId)
        => dishes[i].name # dishes[j].name

(***************************************************************************)
(* C6.  A 200 response of the history endpoint is taken from one committed *)
(* state: no group has a versionNumber above the currentVersionNumber it   *)
(* reports, and total equals that currentVersionNumber.                    *)
(***************************************************************************)
C6_HistoryFromOneState ==
    (Answered("history") /\ O.resp.status = 200)
    => /\ O.resp.total = O.resp.versionNumber
       /\ \A g \in 1 .. Len(O.resp.histories) :
            O.resp.histories[g].versionNumber <= O.resp.versionNumber

(***************************************************************************)
(* C7 (as amended).  A revise request of a chef who is not the dish's      *)
(* owner changes no table, and when it passes the header and body          *)
(* validation it is answered UNAUTHORIZED (403).                           *)
(***************************************************************************)
C7_NonOwnerRevise ==
    PutByOther
    => /\ ~O.wrote
       /\ PutWellFormed => Is(UnauthorizedError)

\* A well-formed revise request of another chef, answered 403.
C7_Witness == PutByOther /\ PutWellFormed /\ Is(UnauthorizedError)

\* C7 as claimed: every revise request of a chef who is not the owner is
\* answered UNAUTHORIZED (403) and changes nothing.
C7_AsClaimed == PutByOther => (Is(UnauthorizedError) /\ ~O.wrote)

(***************************************************************************)
(* C8 (as amended).  A revise request of the owner that passes the body    *)
(* validation and names an ingredient that is not in the catalog changes   *)
(* no table; it is answered NOT_FOUND (404), unless it renames the dish to *)
(* the name of another dish of the chef, which is answered CONFLICT (409). *)
(***************************************************************************)
\* Another dish of the acting chef had the request's name when it arrived.
NameTaken ==
    \E i \in 1 .. Len(O.pre) :
        i # O.dishId /\ O.pre[i].chefId = O.chefId /\ O.pre[i].name = O.name

C8_MissingIngredientRevise ==
    (PutByOwner /\ PutWellFormed /\ HasMissingId)
    => /\ ~O.wrote
       /\ Is(NotFoundError) \/ (Is(ConflictError) /\ Renames)
       /\ ~Renames => Is(NotFoundError)
       /\ (O.solo /\ ~NameTaken) => Is(NotFoundError)
       /\ (O.solo /\ Renames /\ NameTaken) => Is(ConflictError)

\* The owner's request names ingredient 3 and is answered 404.
C8_Witness == PutByOwner /\ PutWellFormed /\ HasMissingId /\ Is(NotFoundError)

\* C8 as claimed: every revise request of the owner with an ingredient id
\* that is not in the catalog is answered NOT_FOUND (404) and changes nothing.
C8_AsClaimed == (PutByOwner /\ HasMissingId) => (Is(NotFoundError) /\ ~O.wrote)

(***************************************************************************)
(* C9 (as amended).  A revise request of the owner that passes the body    *)
(* validation and repeats an ingredient id changes no table; it is         *)
(* answered VALIDATION_ERROR (400) when every id of the request is in the  *)
(* catalog and NOT_FOUND (404) when one is not, unless it renames the dish *)
(* to the name of another dish of the chef (CONFLICT, 409).                *)
(***************************************************************************)
C9_RepeatedIngredientRevise ==
    (PutByOwner /\ PutWellFormed /\ HasRepeatedId)
    => /\ ~O.wrote
       /\ \/ Is(ConflictError) /\ Renames
          \/ Is(NotFoundError) /\ HasMissingId
          \/ Is(ValidationError) /\ ~HasMissingId
       /\ (~Renames \/ (O.solo /\ ~NameTaken))
            => IF HasMissingId THEN Is(NotFoundError) ELSE Is(ValidationError)

\* The owner's request repeats ingredient 1, which exists: answered 400.
C9_Witness ==
    /\ PutByOwner /\ PutWellFormed
    /\ HasRepeatedId /\ ~HasMissingId
    /\ Is(ValidationError)

\* C9 as claimed: every revise request of the owner that repeats an
\* ingredient id is answered VALIDATION_ERROR (400) and changes nothing,
\* whether or not the repeated id is in the catalog.
C9_AsClaimed == (PutByOwner /\ HasRepeatedId) => (Is(ValidationError) /\ ~O.wrote)

(***************************************************************************)
(* C10.  A create request that no other request overlaps and that is valid *)
(* but for its name: when a dish of the same chef has the name it is       *)
(* answered CONFLICT (409) and inserts nothing; otherwise (also when only  *)
(* dishes of other chefs have the name) it is answered 201 and inserts.    *)
(***************************************************************************)
PostOtherwiseValid ==
    /\ O.chefId \in DOMAIN chefs
    /\ O.name \notin {NoName, ""}
    /\ Len(O.lines) >= 1
    /\ \A i \in 1 .. Len(O.lines) :
        O.lines[i].ingredientId > 0 /\ O.lines[i].ingredientAmount >= 0
    /\ ~HasMissingId
    /\ ~HasRepeatedId

C10_SequentialCreateByName ==
    (Answered("post") /\ O.solo /\ PostOtherwiseValid)
    => IF \E i \in 1 .. Len(O.pre) :
            O.pre[i].chefId = O.chefId /\ O.pre[i].name = O.name
       THEN Is(ConflictError) /\ ~O.wrote
       ELSE /\ O.resp.status = 201
            /\ O.wrote
            /\ O.resp.id = Len(O.pre) + 1
            /\ O.resp.name = O.name
            /\ O.resp.chefId = O.chefId

\* A chef creates a dish under the name of another chef's dish.
C10_Witness ==
    /\ Answered("post") /\ O.solo /\ PostOtherwiseValid
    /\ O.resp.status = 201
    /\ \E i \in 1 .. Len(O.pre) :
            O.pre[i].chefId # O.chefId /\ O.pre[i].name = O.name

(***************************************************************************)
(* C11.  The step in which a create request commits appends one dish,      *)
(* owned by the acting chef, under the request's name and with version 1,  *)
(* and one row per input line, in input order, with the new dish's id,     *)
(* version 1 and the line's ingredientId and amount; chefs, ingredients,   *)
(* the other dishes and the other rows stay as they were.  The response is *)
(* 201 and lists exactly the lines of the request, by ingredientId.        *)
(***************************************************************************)
\* The request at slot s commits its transaction in this step.
Commits(s, kind) ==
    /\ slots[s].kind = kind
    /\ slots[s].pc = "transaction"
    /\ slots'[s].pc # "transaction"

C11_CreateAddsOneDishAndItsLines ==
    [][\A s \in Slots :
        Commits(s, "post")
        => /\ Len(dishes') = Len(dishes) + 1
           /\ SubSeq(dishes', 1, Len(dishes)) = dishes
           /\ dishes'[Len(dishes')].chefId = slots[s].chefId
           /\ dishes'[Len(dishes')].name = slots[s].name
           /\ dishes'[Len(dishes')].versionNumber = 1
           /\ rows' = rows \o LinesAsRows(Len(dishes) + 1, 1, slots[s].lines)
           /\ chefs' = chefs
           /\ ingredients' = ingredients
           /\ s = Observed
                => /\ O'.resp.status = 201
                   /\ O'.resp.id = Len(dishes) + 1
                   /\ O'.resp.chefId = O.chefId
                   /\ O'.resp.versionNumber = 1
                   /\ Len(O'.resp.ingredients) = Len(O.lines)
                   /\ {O'.resp.ingredients[i] : i \in 1 .. Len(O.lines)}
                        = {O.lines[i] : i \in 1 .. Len(O.lines)}
                   /\ \A i \in 1 .. Len(O.lines) - 1 :
                        O'.resp.ingredients[i].ingredientId
                            < O'.resp.ingredients[i + 1].ingredientId]_vars

\* A create request with two lines was answered 201 after another dish and
\* its rows existed.
C11_Witness ==
    /\ Answered("post")
    /\ O.resp.status = 201
    /\ O.resp.id = 2
    /\ Len(O.lines) = 2
    /\ Len(RowsAt(2, 1)) = 2

(***************************************************************************)
(* C12.  The step in which a revision of dish d commits sets d's name to   *)
(* the request's name when it gives one and leaves the name as it was when *)
(* it gives none; d keeps its place in the table (its id), its chefId and  *)
(* its createdAt, and every other dish is unchanged.                       *)
(***************************************************************************)
C12_ReviseNameAndFrame ==
    [][\A s \in Slots :
        Commits(s, "put")
        => LET d == slots[s].dishId
           IN /\ Len(dishes') = Len(dishes)
              /\ dishes'[d].name = IF slots[s].name # NoName
                                   THEN slots[s].name
                                   ELSE dishes[d].name
              /\ dishes'[d].chefId = dishes[d].chefId
              /\ dishes'[d].createdAt = dishes[d].createdAt
              /\ \A e \in DishIds \ {d} : dishes'[e] = dishes[e]
              /\ s = Observed
                    => /\ O'.resp.status = 200
                       /\ O'.resp.id = d
                       /\ O'.resp.name = dishes'[d].name
                       /\ O'.resp.chefId = dishes[d].chefId]_vars

\* Dish 1, created as "a", was renamed "b" by one revision and kept that
\* name through a revision that gave no name.
C12_Witness ==
    /\ Answered("put")
    /\ O.resp.status = 200
    /\ O.name = NoName
    /\ O.resp.name = "b"
    /\ O.resp.versionNumber = 3

(***************************************************************************)
(* C13.  A history read of the first page, with a page size above the      *)
(* number k of revisions that have succeeded on the dish, answers with     *)
(* total = k + 1 and k + 1 groups, versions k + 1 down to 1; each group    *)
(* holds exactly the lines stored for its version (for a version above 1:  *)
(* the lines of the revision that was answered with it), by ascending      *)
(* ingredientId.                                                           *)
(***************************************************************************)
\* The history handler builds its response in this step.
HistoryAnswers ==
    /\ O.kind = "history"
    /\ O.pc = "readRows"
    /\ O'.pc = "done"

LineSet(lines) == {lines[i] : i \in 1 .. Len(lines)}

Ascending(lines) ==
    \A i \in 1 .. Len(lines) - 1 :
        lines[i].ingredientId < lines[i + 1].ingredientId

C13_HistoryListsEveryVersion ==
    [][(HistoryAnswers /\ O.current = 1 /\ O.pageSize > Len(answers[O.dishId]))
        => LET d == O.dishId
               k == Len(answers[d])
               h == O'.resp.histories
           IN /\ O'.resp.status = 200
              /\ O'.resp.total = k + 1
              /\ Len(h) = k + 1
              /\ \A i \in 1 .. Len(h) :
                    LET v == k + 2 - i
                    IN /\ h[i].versionNumber = v
                       /\ Ascending(h[i].ingredients)
                       /\ Len(h[i].ingredients) = Len(RowsAt(d, v))
                       /\ LineSet(h[i].ingredients)
                            = {L(r.ingredientId, r.ingredientAmount) :
                                    r \in LineSet(RowsAt(d, v))}
                       /\ v > 1 => /\ answers[d][v - 1].versionNumber = v
                                   /\ LineSet(h[i].ingredients)
                                        = LineSet(answers[d][v - 1].lines)]_vars

\* The history of a dish after its creation and two revisions, one of them
\* with two lines.
C13_Witness ==
    /\ Answered("history")
    /\ O.resp.total = 3
    /\ Len(O.resp.histories) = 3
    /\ O.resp.histories[1].versionNumber = 3
    /\ \E i \in 1 .. 3 : Len(O.resp.histories[i].ingredients) = 2

(***************************************************************************)
(* C14.  A history read of page p >= 1 with page size s >= 1 of a dish     *)
(* with n versions answers with total = n (the groups, not the rows) and   *)
(* with the groups at positions (p-1)s .. ps-1 of the list n, n-1, .. 1:   *)
(* the versions n - (p-1)s downwards, s of them or as many as are left.    *)
(***************************************************************************)
Min(a, b) == IF a < b THEN a ELSE b

Max(a, b) == IF a > b THEN a ELSE b

C14_HistoryPage ==
    [][(HistoryAnswers /\ O.current >= 1 /\ O.pageSize >= 1)
        => LET d == O.dishId
               n == dishes[d].versionNumber
               skipped == (O.current - 1) * O.pageSize
               h == O'.resp.histories
           IN /\ O'.resp.total = n
              /\ Len(h) = Max(0, Min(O.pageSize, n - skipped))
              /\ \A i \in 1 .. Len(h) :
                    /\ h[i].versionNumber = n - skipped - (i - 1)
                    /\ Len(h[i].ingredients)
                        = Len(RowsAt(d, h[i].versionNumber))
                    /\ LineSet(h[i].ingredients)
                        = {L(r.ingredientId, r.ingredientAmount) :
                                r \in LineSet(RowsAt(d, h[i].versionNumber))}]_vars

\* Page 2 of size 2 of a dish with three versions and more than three rows:
\* the one group left, version 1.
C14_Witness ==
    /\ Answered("history")
    /\ O.current = 2
    /\ O.pageSize = 2
    /\ O.resp.total = 3
    /\ Len(RowsAt(O.dishId, 1)) + Len(RowsAt(O.dishId, 2))
            + Len(RowsAt(O.dishId, 3)) > 3
    /\ Len(O.resp.histories) = 1
    /\ O.resp.histories[1].versionNumber = 1

(***************************************************************************)
(* C15.  For every dish d and every version v from 1 to d's versionNumber, *)
(* the history of d holds a group of version v, and no step changes the    *)
(* set of (ingredientId, amount) pairs that group holds.                   *)
(***************************************************************************)
\* What the whole history of dish d reads as version v.
HistoryOfVersion(rws, d, v) ==
    LET grouped == Grouped(rws, d)
    IN {LineSet(grouped[i].ingredients) :
            i \in {j \in 1 .. Len(grouped) : grouped[j].versionNumber = v}}

C15_VersionsAreImmutable ==
    [][(rows' # rows \/ dishes' # dishes)
        => \A d \in 1 .. Len(dishes') : \A v \in 1 .. dishes'[d].versionNumber :
              LET after == HistoryOfVersion(rows', d, v)
              IN /\ Cardinality(after) = 1
                 /\ {} \notin after
                 /\ (d \in DishIds /\ v <= dishes[d].versionNumber)
                        => after = HistoryOfVersion(rows, d, v)]_vars

\* Dish 1 after two revisions, each with other lines than the version before.
C15_Witness ==
    /\ Len(dishes) >= 1
    /\ dishes[1].versionNumber = 3
    /\ HistoryOfVersion(rows, 1, 1) # HistoryOfVersion(rows, 1, 2)
    /\ HistoryOfVersion(rows, 1, 2) # HistoryOfVersion(rows, 1, 3)

(***************************************************************************)
(* C16.  GET /dishes/{id}/ingredients of an existing dish: with a chef id  *)
(* in X-Chef-Id that is not the owner's (registered or not) the answer is  *)
(* UNAUTHORIZED (403); without the header, or with the owner's id, it is   *)
(* 200 with a composition the dish had while the request ran.  No step of  *)
(* the handler changes a table.                                            *)
(***************************************************************************)
GetOfExistingDish == Answered("get") /\ Target # NoDish

GetHandlerSteps ==
    \/ O.pc = "idle" /\ O'.kind = "get"
    \/ O.kind = "get" /\ O.pc = "readRows" /\ O'.pc = "done"

C16_ViewAuthorization ==
    /\ [](GetOfExistingDish
            => /\ (O.chefId > 0 /\ O.chefId # Target.chefId)
                    => Is(UnauthorizedError)
               /\ (O.chefId = NoHeader \/ O.chefId = Target.chefId)
                    => /\ O.resp.status = 200
                       /\ O.resp.id = O.dishId
                       /\ O.resp.chefId = Target.chefId
                       /\ \E c \in O.snaps :
                            /\ c.versionNumber = O.resp.versionNumber
                            /\ c.lines = LineSet(O.resp.ingredients))
    /\ [][GetHandlerSteps
            => /\ dishes' = dishes
               /\ rows' = rows
               /\ chefs' = chefs
               /\ ingredients' = ingredients]_vars

\* Chef 3, who owns no dish, is refused the composition of a dish with rows.
C16_Witness ==
    /\ GetOfExistingDish
    /\ O.chefId = 3
    /\ Is(UnauthorizedError)
    /\ RowsAt(O.dishId, 1) # <<>>

(***************************************************************************)
(* C17 (as amended).  A revise request of the owner that no other request  *)
(* overlaps, that passes the body validation and that gives a name other   *)
(* than the dish's: when another dish of the chef has the name, it is      *)
(* answered CONFLICT (409) and changes nothing; when no other dish of the  *)
(* chef has it (dishes of other chefs may), it is not answered CONFLICT,   *)
(* and with valid ingredients it is answered 200 under the new name.       *)
(***************************************************************************)
\* A dish of another chef has the request's name.
NameTakenByAnotherChef ==
    \E i \in 1 .. Len(O.pre) :
        O.pre[i].chefId # O.chefId /\ O.pre[i].name = O.name

C17_RenameConflict ==
    (PutByOwner /\ PutWellFormed /\ Renames /\ O.solo)
    => IF NameTaken
       THEN Is(ConflictError) /\ ~O.wrote
       ELSE /\ ~Is(ConflictError)
            /\ (~HasMissingId /\ ~HasRepeatedId)
                => /\ O.resp.status = 200
                   /\ O.resp.name = O.name
                   /\ O.wrote

\* The chef's other dish has the name: 409.
C17_Witness ==
    /\ PutByOwner /\ PutWellFormed /\ Renames /\ O.solo
    /\ NameTaken
    /\ Is(ConflictError)

\* C17 as claimed: every revise of the owner that gives a name other than
\* the dish's is answered CONFLICT (409) and changes nothing when another
\* dish of the same chef has that name.
C17_AsClaimed ==
    (PutByOwner /\ Renames /\ O.solo /\ NameTaken)
    => (Is(ConflictError) /\ ~O.wrote)

\* The name is free for the chef although a dish of another chef has it.
C17_NameOfAnotherChef ==
    /\ PutByOwner /\ PutWellFormed /\ Renames /\ O.solo
    /\ ~NameTaken
    /\ NameTakenByAnotherChef
    /\ ~Is(ConflictError)

(***************************************************************************)
(* C18 (as amended).  A create request that passes the header and body     *)
(* validation and fails creates no dish and no row.  When no other request *)
(* overlaps it, the first of these that applies decides the answer: the    *)
(* acting chef does not exist, NOT_FOUND; the chef has a dish of the name, *)
(* CONFLICT; an ingredient id is not in the catalog, NOT_FOUND; an         *)
(* ingredient id is repeated, VALIDATION_ERROR; none applies, 201.         *)
(***************************************************************************)
PostWellFormed ==
    /\ O.chefId > 0
    /\ O.name \notin {NoName, ""}
    /\ Len(O.lines) >= 1
    /\ \A i \in 1 .. Len(O.lines) :
        O.lines[i].ingredientId > 0 /\ O.lines[i].ingredientAmount >= 0

\* The acting chef had a dish of the request's name when it arrived.
NameTakenAtCreate ==
    \E i \in 1 .. Len(O.pre) :
        O.pre[i].chefId = O.chefId /\ O.pre[i].name = O.name

C18_CreateFailures ==
    (Answered("post") /\ PostWellFormed)
    => /\ O.resp.status # 201 => ~O.wrote
       /\ O.chefId \notin DOMAIN chefs => Is(NotFoundError)
       /\ O.solo
            => IF O.chefId \notin DOMAIN chefs THEN Is(NotFoundError)
               ELSE IF NameTakenAtCreate THEN Is(ConflictError)
               ELSE IF HasMissingId THEN Is(NotFoundError)
               ELSE IF HasRepeatedId THEN Is(ValidationError)
               ELSE O.resp.status = 201 /\ O.wrote

\* A registered chef's request under a free name repeats ingredient 1: 400.
C18_Witness ==
    /\ Answered("post") /\ PostWellFormed /\ O.solo
    /\ O.chefId \in DOMAIN chefs
    /\ ~NameTakenAtCreate
    /\ HasRepeatedId /\ ~HasMissingId
    /\ Is(ValidationError)
    /\ ~O.wrote

\* C18 as claimed: a create request fails with NOT_FOUND when the acting
\* chef does not exist, with NOT_FOUND when an ingredient id does not exist,
\* with VALIDATION_ERROR when an ingredient id is repeated and with CONFLICT
\* when the chef has a dish of that name, and then creates nothing (here
\* for the requests that pass the header and body validation).
C18_AsClaimed ==
    (Answered("post") /\ O.solo /\ PostWellFormed)
    => /\ O.chefId \notin DOMAIN chefs => Is(NotFoundError)
       /\ HasMissingId => Is(NotFoundError)
       /\ HasRepeatedId => Is(ValidationError)
       /\ NameTakenAtCreate => Is(ConflictError)
       /\ O.resp.status # 201 => ~O.wrote

(***************************************************************************)
(* C19.  A request that creates an ingredient (a chef) with a valid body   *)
(* and does not succeed was stopped by the uniqueness of the name (the     *)
(* username): it is answered CONFLICT (409), also when the row that holds  *)
(* the value was written by a request running concurrently.                *)
(***************************************************************************)
C19_UniqueViolationIsConflict ==
    /\ (Answered("postIngredient")
            /\ CreateIngredientSchemaOk(O.name, O.unit)
            /\ O.resp.status # 201)
        => Is(ConflictError)
    /\ (Answered("postChef")
            /\ CreateChefSchemaOk(O.name, O.username, O.password)
            /\ O.resp.status # 201)
        => Is(ConflictError)

(***************************************************************************)
(* C20 (as amended).  No two ingredients have the same name, in every      *)
(* reachable state.  A create request with a valid body whose name an      *)
(* ingredient has is answered CONFLICT and changes nothing.  An update     *)
(* request with a valid body and a name, of an existing ingredient, that   *)
(* no other request overlaps, is answered CONFLICT and changes nothing     *)
(* when another ingredient has the name, and is answered 200 otherwise,    *)
(* in particular when the name is the ingredient's own.                    *)
(***************************************************************************)
IngredientNameTaken(exceptId) ==
    \E i \in 1 .. Len(O.preIngredients) :
        i # exceptId /\ O.preIngredients[i].name = O.name

C20_IngredientNamesUnique ==
    /\ \A i, j \in DOMAIN ingredients :
            i # j => ingredients[i].name # ingredients[j].name
    /\ (Answered("postIngredient")
            /\ O.name \notin {NoName, ""} /\ O.unit \notin {NoName, ""}
            /\ IngredientNameTaken(0))
        => Is(ConflictError) /\ ~O.wrote
    /\ (Answered("putIngredient")
            /\ O.ingredientId \in 1 .. Len(O.preIngredients)
            /\ O.name \notin {NoName, ""} /\ O.unit # ""
            /\ O.solo)
        => IF IngredientNameTaken(O.ingredientId)
           THEN Is(ConflictError) /\ ~O.wrote
           ELSE /\ O.resp.status = 200
                /\ O.resp.id = O.ingredientId
                /\ O.resp.name = O.name

\* An update of ingredient 1 under its own name "x" is answered 200 while
\* the catalog holds three ingredients.
C20_Witness ==
    /\ Answered("putIngredient")
    /\ O.solo
    /\ O.ingredientId = 1
    /\ O.name = O.preIngredients[1].name
    /\ O.resp.status = 200
    /\ Len(ingredients) = 3

\* C20 as claimed: no two ingredients have the same name; creating an
\* ingredient with an existing name, or renaming one to the name of another,
\* is rejected with CONFLICT and leaves the catalog unchanged.
C20_AsClaimed ==
    /\ \A i, j \in DOMAIN ingredients :
            i # j => ingredients[i].name # ingredients[j].name
    /\ (Answered("postIngredient") /\ IngredientNameTaken(0))
        => Is(ConflictError) /\ ~O.wrote
    /\ (Answered("putIngredient")
            /\ O.ingredientId \in 1 .. Len(O.preIngredients)
            /\ O.solo
            /\ IngredientNameTaken(O.ingredientId))
        => Is(ConflictError) /\ ~O.wrote

(***************************************************************************)
(* C21. A login that fails for an unknown username and a login that fails  *)
(* for a known username with a wrong password are answered alike: status   *)
(* 403, code UNAUTHORIZED, the message "Invalid username or password" and  *)
(* no data, so the answer does not tell whether the username exists.       *)
(***************************************************************************)
\* The chef registered under the username of the request when it arrived.
LoginChef == ChefWithUsername(O.preChefs, O.username)

UnknownUsername == LoginChef = 0

WrongPassword ==
    LoginChef # 0 /\ O.preChefs[LoginChef].password # Hash(O.password)

InvalidLogin ==
    [NoResp EXCEPT !.status = 403, !.code = "UNAUTHORIZED",
                   !.message = "Invalid username or password"]

C21_FailedLoginsAreAlike ==
    (Answered("login") /\ LoginChefSchemaOk(O.username, O.password)
        /\ (UnknownUsername \/ WrongPassword))
    => O.resp = InvalidLogin

\* The password of chef "u3" is tried on the registered username "u1".
C21_Witness ==
    /\ Answered("login")
    /\ O.username = "u1"
    /\ O.password = "secret3"
    /\ WrongPassword
    /\ O.resp = InvalidLogin

(***************************************************************************)
(* C22. A registered chef keeps its id, username and password hash and is  *)
(* never removed.  The only step that changes a registered chef is the     *)
(* update of PUT /api/chefs/[chefId]: it sets the name (and the update     *)
(* time) of the chef it names and leaves every other chef, every dish and  *)
(* every dish-ingredient row as they were.                                 *)
(***************************************************************************)
\* The request at slot s runs prisma.chef.update in this step.
UpdatesChef(s) ==
    /\ slots[s].kind = "putChef"
    /\ slots[s].pc = "update"
    /\ slots'[s].pc # "update"

C22_ChefFrame ==
    [][/\ Len(chefs') >= Len(chefs)
       /\ \A c \in DOMAIN chefs :
            /\ chefs'[c].username = chefs[c].username
            /\ chefs'[c].password = chefs[c].password
            /\ chefs'[c] # chefs[c] =>
                    \E s \in Slots : UpdatesChef(s) /\ slots[s].chefId = c
       /\ \A s \in Slots :
            UpdatesChef(s) =>
                /\ DOMAIN chefs' = DOMAIN chefs
                /\ chefs'[slots[s].chefId].name = slots[s].name
                /\ \A c \in DOMAIN chefs :
                        c # slots[s].chefId => chefs'[c] = chefs[c]
                /\ dishes' = dishes
                /\ rows' = rows
                /\ ingredients' = ingredients]_vars

\* Chef 1 has been renamed "m" after chef 3 registered; the dish of chef 1
\* and its rows are still there.
C22_Witness ==
    /\ Answered("putChef")
    /\ O.resp.status = 200
    /\ O.chefId = 1
    /\ chefs[1].name = "m"
    /\ chefs[1].username = "u1"
    /\ Len(chefs) = 3
    /\ Len(dishes) = 1
    /\ Len(rows) = 2

(***************************************************************************)
(* C23. A failed request is answered with one of the five codes, each      *)
(* with its own status: VALIDATION_ERROR 400, UNAUTHORIZED 403, NOT_FOUND  *)
(* 404, CONFLICT 409, INTERNAL_SERVER_ERROR 500.  An error the handler     *)
(* throws itself is reported under its own code and status; only an        *)
(* exception the catch does not recognize is reported as                   *)
(* INTERNAL_SERVER_ERROR, with the message "Internal server error".        *)
(***************************************************************************)
Failed == O.pc = "done" /\ O.resp.status \notin {200, 201}

ErrorPairs ==
    {<<400, "VALIDATION_ERROR">>, <<403, "UNAUTHORIZED">>, <<404, "NOT_FOUND">>,
     <<409, "CONFLICT">>, <<500, "INTERNAL_SERVER_ERROR">>}

\* The body of the request fails the schema of its handler.
ChefBodyInvalid ==
    \/ O.kind = "postChef" /\ ~CreateChefSchemaOk(O.name, O.username, O.password)
    \/ O.kind = "putChef" /\ ~UpdateChefSchemaOk(O.name)
    \/ O.kind = "login" /\ ~LoginChefSchemaOk(O.username, O.password)

\* The handler itself throws no error: the username was free when it was
\* looked up and is taken when the chef is created.
UsernameTakenSinceLookup ==
    /\ O.kind = "postChef"
    /\ ~ChefBodyInvalid
    /\ ChefWithUsername(O.preChefs, O.username) = 0
    /\ ChefWithUsername(chefs, O.username) # 0

C23_ErrorsAreReported ==
    Failed =>
        /\ <<O.resp.status, O.resp.code>> \in ErrorPairs
        /\ O.resp.code = "INTERNAL_SERVER_ERROR"
            <=> (UsernameTakenSinceLookup /\ ~O.wrote)
        /\ O.resp.code = "INTERNAL_SERVER_ERROR"
            => O.resp.message = "Internal server error"
        /\ (O.kind = "putChef" /\ O.chefId <= 0) \/ ChefBodyInvalid
            => Is(ValidationError)
        /\ (O.kind = "putChef" /\ O.chefId > 0 /\ ~ChefBodyInvalid)
            => Is(NotFoundError) /\ O.chefId \notin DOMAIN O.preChefs
        /\ (O.kind = "login" /\ ~ChefBodyInvalid) => Is(UnauthorizedError)
        /\ (O.kind = "postChef" /\ ~ChefBodyInvalid
                /\ ChefWithUsername(O.preChefs, O.username) # 0)
            => Is(ConflictError)

\* A registration that lost the race for the username "u3" is answered 500.
C23_Witness ==
    /\ Failed
    /\ O.kind = "postChef"
    /\ O.username = "u3"
    /\ UsernameTakenSinceLookup
    /\ O.resp.status = 500
    /\ O.resp.message = "Internal server error"

(***************************************************************************)
(* C24. Revise is total, and it is the only transition of a version.  A    *)
(* revise by the owner of an existing dish, with a non-empty list of       *)
(* pairwise distinct existing ingredient ids, amounts >= 0 and a name that *)
(* is absent or collides with no other dish of the chef, passes every      *)
(* check of the handler, and its transaction answers 200 and moves the     *)
(* dish from the version committed immediately before it to exactly that   *)
(* version + 1, whatever the other request does meanwhile.  No other step  *)
(* changes the version of a dish.                                          *)
(***************************************************************************)
\* Another dish of the chef holds the name of the request now.
NameCollidesNow ==
    \E d \in DishIds :
        /\ d # O.dishId
        /\ dishes[d].chefId = O.chefId
        /\ dishes[d].name = O.name

\* The observed revise leaves the step pc in this step.
Leaves(pc) == O.kind = "put" /\ O.pc = pc /\ slots'[Observed].pc # pc

\* The request at slot s commits a revision in this step.
Revises(s, d) ==
    /\ slots[s].kind = "put"
    /\ slots[s].pc = "transaction"
    /\ slots[s].dishId = d
    /\ slots'[s].pc # "transaction"

C25_ListedIngredientsOfReportedVersion ==
    (Answered("list") /\ O.resp.status = 200)
    => \A k \in 1 .. Len(O.resp.data) :
        LET entry == O.resp.data[k]
            listed == LinesAsRows(entry.id, entry.versionNumber, entry.ingredients)
            stored == RowsAt(entry.id, entry.versionNumber)
        IN /\ {listed[i] : i \in 1 .. Len(listed)}
                = {stored[i] : i \in 1 .. Len(stored)}
           /\ Len(listed) = Len(stored)

\* Both dishes are listed, one of them at version 1 with its two lines
\* although its revision to version 2 is committed.
C25_Witness ==
    /\ Answered("list")
    /\ Len(O.resp.data) = 2
    /\ \E k \in 1 .. 2 :
        /\ O.resp.data[k].versionNumber = 1
        /\ Len(O.resp.data[k].ingredients) = 2
        /\ dishes[O.resp.data[k].id].versionNumber = 2

(***************************************************************************)
(* C26. In every committed state and for every dish, the versionNumbers of *)
(* the rows of the dish are exactly 1 .. currentVersionNumber: no gap, no  *)
(* version beyond the current one, no version and no dish without a row.   *)
(* The history of the dish, grouped as the history endpoint groups it, has *)
(* one group per version, so its total is the currentVersionNumber; a      *)
(* history read that no request overlaps answers with that total.          *)
(***************************************************************************)
VersionsOf(d) == {rows[i].versionNumber : i \in RowsOfDish(rows, d)}

C26_VersionsAreContiguous ==
    /\ \A d \in DishIds :
        /\ VersionsOf(d) = 1 .. dishes[d].versionNumber
        /\ Len(Grouped(rows, d)) = dishes[d].versionNumber
    /\ (Answered("history") /\ O.resp.status = 200 /\ O.solo)
        => /\ O.resp.total = O.resp.versionNumber
           /\ O.resp.total = O.pre[O.dishId].versionNumber

\* The history of a dish at version 3 is read with no request beside it.
C26_Witness ==
    /\ Answered("history")
    /\ O.solo
    /\ O.resp.total = 3
    /\ dishes[O.dishId].versionNumber = 3
    /\ VersionsOf(O.dishId) = {1, 2, 3}

FailsWith(e) ==
    /\ slots'[Observed].pc = "done"
    /\ slots'[Observed].resp.status = e.status
    /\ slots'[Observed].resp.code = e.code
    /\ ~slots'[Observed].wrote
    /\ UNCHANGED <<chefs, ingredients, dishes, rows>>

\* A well-formed revise arrives in this step.
ReviseArrives ==
    /\ O.pc = "idle"
    /\ slots'[Observed].kind = "put"
    /\ PutWellFormed'

C28_CheckOrder ==
    [][LET req == slots'[Observed]
       IN /\ (ReviseArrives /\ req.dishId \notin DishIds)
                => FailsWith(NotFoundError)
          /\ (ReviseArrives /\ req.dishId \in DishIds)
                => IF dishes[req.dishId].chefId # req.chefId
                   THEN FailsWith(UnauthorizedError)
                   ELSE req.pc =
                            IF req.name # NoName /\ req.name # dishes[req.dishId].name
                            THEN "nameCheck" ELSE "ingredientCheck"
          /\ Leaves("nameCheck")
                => IF NameCollidesNow THEN FailsWith(ConflictError)
                   ELSE req.pc = "ingredientCheck"
          /\ Leaves("ingredientCheck")
                => IF HasMissingId THEN FailsWith(NotFoundError)
                   ELSE IF HasRepeatedId THEN FailsWith(ValidationError)
                   ELSE req.pc = "transaction"]_vars

\* The owner's revise renames the dish to the name of the chef's other dish
\* and names ingredient 3, which is not in the catalog, twice: the name
\* check is the earliest that fails, and the answer is CONFLICT.
C28_Witness ==
    /\ PutByOwner
    /\ PutWellFormed
    /\ O.solo
    /\ Renames
    /\ NameCollidesNow
    /\ HasMissingId
    /\ HasRepeatedId
    /\ Is(ConflictError)
    /\ ~O.wrote

(***************************************************************************)
(* C29. The history endpoint applies no ownership check: for an existing   *)
(* dish it answers 200 with the history to a caller without a chef id and  *)
(* to a caller with any valid chef id, the owner or not, while the         *)
(* current-composition endpoint answers a valid chef id that is not the    *)
(* owner's with UNAUTHORIZED.                                              *)
(***************************************************************************)
\* The caller presents a valid chef id that is not the owner's.
ValidNonOwner == Target # NoDish /\ O.chefId > 0 /\ O.chefId # Target.chefId

C30_ChildrenOnlyForAuthenticated ==
    browser.rendered = "children"
    => browser.pathname = "/login" \/ browser.storage # NoItem

====
